---- MODULE Spec2Model ----
(***************************************************************************)
(* Tournament progression engine of the eFootball Tournament Manager.     *)
(*                                                                         *)
(* Two implementations of the engine live in the repository:              *)
(*   - the controller stack (TournamentController, GroupController,       *)
(*     KnockoutController, MatchController) over Group / Match instances; *)
(*   - the Tournament class (js/models/tournament.js) over plain objects  *)
(*     built by Helpers.                                                   *)
(* No controller calls Tournament.updateMatchResult, so a client drives   *)
(* either the controller stack or a Tournament instance of its own.       *)
(*                                                                         *)
(* Teams are positive integers; the name order of two teams is the order  *)
(* of the integers (team ids are unique, names are distinct).             *)
(***************************************************************************)
EXTENDS Integers, Sequences, FiniteSets, TLC

\* JS null / undefined (a score, a winner, an absent list element).
Null == -1

\* The placeholder team { id: null, name: 'TBD' }: an object, hence truthy.
TBD == 0

\* ------------------------------------------------------------------------
\* Bounds of the model (inputs the client may submit).

\* Largest number of entries kept in the Tournament class's event log.
MaxEvents == 13



\* Team names offered to createTournament.
Teams == 1 .. 4

\* Regulation results a client submits for a group match.
GroupScoreInputs == { <<2, 1>> }

\* No extra time / no penalties submitted (undefined option).
NoScores == << >>

\* Results a client submits for a knockout match: regulation score,
\* optional extra-time score, optional penalty score.
KnockoutInputs ==
    { [reg |-> <<1, 0>>, et |-> NoScores, pens |-> NoScores],
      [reg |-> <<1, 1>>, et |-> NoScores, pens |-> NoScores],
      [reg |-> <<1, 1>>, et |-> NoScores, pens |-> <<3, 3>>] }


\* ------------------------------------------------------------------------
\* Small helpers.

Range(s) == { s[i] : i \in DOMAIN s }

\* array[i] of JS (0-based); undefined past the end.
At(s, i) == IF i >= 0 /\ i < Len(s) THEN s[i + 1] ELSE Null

\* Array.prototype.findIndex (0-based, -1 when absent).
FindIndex(s, P(_)) ==
    IF \E i \in DOMAIN s : P(s[i])
    THEN (CHOOSE i \in DOMAIN s : P(s[i]) /\ \A j \in 1 .. (i - 1) : ~P(s[j])) - 1
    ELSE -1

RECURSIVE SumSeq(_)
SumSeq(s) == IF s = << >> THEN 0 ELSE Head(s) + SumSeq(Tail(s))

\* Permutations of a finite set, as sequences.
RECURSIVE Perms(_)
Perms(S) ==
    IF S = {} THEN { << >> }
    ELSE UNION { { << x >> \o p : p \in Perms(S \ { x }) } : x \in S }

\* Outcomes of Helpers.shuffleArray explored by the model.
Reverse(s) == [i \in DOMAIN s |-> s[Len(s) + 1 - i]]
shuffleArray(s) == { s, Reverse(s) }

\* ------------------------------------------------------------------------
\* Match (js/models/match.js)

NoExtraTime == [played |-> FALSE, homeScore |-> Null, awayScore |-> Null]
NoPenalties == [played |-> FALSE, homeScore |-> Null, awayScore |-> Null, winner |-> Null]

\* new Match(config): round / group are '' when absent (falsy like null).
Match(id, homeTeam, awayTeam, matchday, round, group) ==
    [id |-> id, homeTeam |-> homeTeam, awayTeam |-> awayTeam,
     homeScore |-> Null, awayScore |-> Null, played |-> FALSE, winner |-> Null,
     matchday |-> matchday, round |-> round, group |-> group,
     extraTime |-> NoExtraTime, penalties |-> NoPenalties]

\* Match.updateResult(homeScore, awayScore)
Match_updateResult(m, h, a) ==
    [m EXCEPT !.homeScore = h, !.awayScore = a, !.played = TRUE,
              !.winner = IF h > a THEN m.homeTeam
                         ELSE IF h < a THEN m.awayTeam
                         ELSE Null]

\* Match.isScheduled()
Match_isScheduled(m) == m.homeTeam > 0 /\ m.awayTeam > 0

\* ------------------------------------------------------------------------
\* Helpers.generateMatchSchedule / generateMatchId (js/utils/helpers.js)

\* The match pattern with the first pairing of matchday 3 played the other
\* way round on matchday 2 as well (3 v 1 in place of 3 v 4).
matchPattern_RepeatedPair ==
    << [home |-> 0, away |-> 3, matchday |-> 1], [home |-> 1, away |-> 2, matchday |-> 1],
       [home |-> 0, away |-> 1, matchday |-> 2], [home |-> 2, away |-> 0, matchday |-> 2],
       [home |-> 2, away |-> 0, matchday |-> 3], [home |-> 3, away |-> 1, matchday |-> 3] >>

matchPattern ==
    << [home |-> 0, away |-> 3, matchday |-> 1], [home |-> 1, away |-> 2, matchday |-> 1],
       [home |-> 0, away |-> 1, matchday |-> 2], [home |-> 2, away |-> 3, matchday |-> 2],
       [home |-> 2, away |-> 0, matchday |-> 3], [home |-> 3, away |-> 1, matchday |-> 3] >>

generateMatchId(homeTeamId, awayTeamId, matchday) ==
    "match_" \o ToString(homeTeamId) \o "_" \o ToString(awayTeamId) \o "_" \o ToString(matchday)

\* The flattened schedule of one group, already turned into Match instances
\* by Group.deserialize (no group, no round on them).
generateMatchSchedule(teams) ==
    IF Len(teams) # 4 THEN << >>
    ELSE [k \in 1 .. 6 |->
            Match(generateMatchId(At(teams, matchPattern[k].home),
                                  At(teams, matchPattern[k].away),
                                  matchPattern[k].matchday),
                  At(teams, matchPattern[k].home), At(teams, matchPattern[k].away),
                  matchPattern[k].matchday, "", "")]

\* The match pattern of Match.createGroupMatches, matchday by matchday.
groupMatchPattern ==
    << [home |-> 0, away |-> 3, matchday |-> 1], [home |-> 1, away |-> 2, matchday |-> 1],
       [home |-> 0, away |-> 1, matchday |-> 2], [home |-> 2, away |-> 3, matchday |-> 2],
       [home |-> 2, away |-> 0, matchday |-> 3], [home |-> 3, away |-> 1, matchday |-> 3] >>

\* Match._generateId(): a fresh id for the k-th match made.
Match_generateId(k) == "match_new_" \o ToString(k)

\* Match.createGroupMatches(teams, groupId)
createGroupMatches(teams, groupId) ==
    IF Len(teams) # 4 THEN << >>
    ELSE [k \in 1 .. 6 |->
            Match(Match_generateId(k),
                  At(teams, groupMatchPattern[k].home), At(teams, groupMatchPattern[k].away),
                  groupMatchPattern[k].matchday, "", ToString(groupId))]

\* ------------------------------------------------------------------------
\* Standings (Group.recalculateStandings, Helpers.calculateGroupStandings)

Counted(m) == m.played /\ m.homeScore # Null /\ m.awayScore # Null

\* The row of team t accumulated over every match of the group, whether it
\* has been played or not.
RowOfTeam_UnplayedCounted(t, matches, ids) ==
    LET mine == { k \in DOMAIN matches :
                    /\ matches[k].homeTeam \in ids /\ matches[k].awayTeam \in ids
                    /\ t \in { matches[k].homeTeam, matches[k].awayTeam } }
        gf(k) == IF t = matches[k].homeTeam THEN matches[k].homeScore ELSE matches[k].awayScore
        ga(k) == IF t = matches[k].homeTeam THEN matches[k].awayScore ELSE matches[k].homeScore
        won == Cardinality({ k \in mine : gf(k) > ga(k) })
        drawn == Cardinality({ k \in mine : gf(k) = ga(k) })
        lost == Cardinality({ k \in mine : gf(k) < ga(k) })
        goalsFor == SumSeq([k \in DOMAIN matches |-> IF k \in mine THEN gf(k) ELSE 0])
        goalsAgainst == SumSeq([k \in DOMAIN matches |-> IF k \in mine THEN ga(k) ELSE 0])
    IN [id |-> t, played |-> Cardinality(mine), won |-> won, drawn |-> drawn, lost |-> lost,
        goalsFor |-> goalsFor, goalsAgainst |-> goalsAgainst,
        goalDifference |-> goalsFor - goalsAgainst,
        points |-> 3 * won + drawn,
        qualified |-> FALSE, bestThird |-> FALSE]

\* The row of team t accumulated over the played matches between teams of
\* the group (a match whose home or away row is missing is skipped).
RowOfTeam(t, matches, ids) ==
    LET mine == { k \in DOMAIN matches :
                    /\ Counted(matches[k])
                    /\ matches[k].homeTeam \in ids /\ matches[k].awayTeam \in ids
                    /\ t \in { matches[k].homeTeam, matches[k].awayTeam } }
        gf(k) == IF t = matches[k].homeTeam THEN matches[k].homeScore ELSE matches[k].awayScore
        ga(k) == IF t = matches[k].homeTeam THEN matches[k].awayScore ELSE matches[k].homeScore
        won == Cardinality({ k \in mine : gf(k) > ga(k) })
        drawn == Cardinality({ k \in mine : gf(k) = ga(k) })
        lost == Cardinality({ k \in mine : gf(k) < ga(k) })
        goalsFor == SumSeq([k \in DOMAIN matches |-> IF k \in mine THEN gf(k) ELSE 0])
        goalsAgainst == SumSeq([k \in DOMAIN matches |-> IF k \in mine THEN ga(k) ELSE 0])
    IN [id |-> t, played |-> Cardinality(mine), won |-> won, drawn |-> drawn, lost |-> lost,
        goalsFor |-> goalsFor, goalsAgainst |-> goalsAgainst,
        goalDifference |-> goalsFor - goalsAgainst,
        points |-> 3 * won + drawn,
        qualified |-> FALSE, bestThird |-> FALSE]

\* The accumulated, unsorted rows in team order.
AccumulateRows(teams, matches) ==
    LET ids == Range(teams)
    IN [i \in DOMAIN teams |-> RowOfTeam(teams[i], matches, ids)]

\* Group._getHeadToHeadResult(teamAId, teamBId)
getHeadToHeadResult(matches, teamAId, teamBId) ==
    LET found == { k \in DOMAIN matches :
                     /\ \/ (matches[k].homeTeam = teamAId /\ matches[k].awayTeam = teamBId)
                        \/ (matches[k].homeTeam = teamBId /\ matches[k].awayTeam = teamAId)
                     /\ matches[k].played }
    IN IF found = {} THEN 0
       ELSE LET m == matches[CHOOSE k \in found : \A j \in found : k <= j]
            IN IF m.homeTeam = teamAId
               THEN (IF m.homeScore > m.awayScore THEN 1
                     ELSE IF m.homeScore < m.awayScore THEN -1 ELSE 0)
               ELSE (IF m.awayScore > m.homeScore THEN 1
                     ELSE IF m.awayScore < m.homeScore THEN -1 ELSE 0)

\* a.name.localeCompare(b.name) with the two results exchanged.
localeCompare_Descending(a, b) == IF a < b THEN 1 ELSE IF a > b THEN -1 ELSE 0

\* a.name.localeCompare(b.name)
localeCompare(a, b) == IF a < b THEN -1 ELSE IF a > b THEN 1 ELSE 0

\* Steps 1-3 of both comparators: points, goal difference, goals scored.
compareStats(a, b) ==
    IF b.points # a.points THEN b.points - a.points
    ELSE IF b.goalDifference # a.goalDifference THEN b.goalDifference - a.goalDifference
    ELSE IF b.goalsFor # a.goalsFor THEN b.goalsFor - a.goalsFor
    ELSE 0

\* The comparator of Group.sortStandings: negative puts a before b.
Group_compare(matches, a, b) ==
    LET stats == compareStats(a, b)
        headToHead == getHeadToHeadResult(matches, a.id, b.id)
    IN IF stats # 0 THEN stats
       ELSE IF headToHead # 0 THEN headToHead
       ELSE localeCompare(a.id, b.id)

\* The comparator of Helpers.sortGroupStandings (no head-to-head step).
Helpers_compare(matches, a, b) ==
    LET stats == compareStats(a, b)
    IN IF stats # 0 THEN stats ELSE localeCompare(a.id, b.id)

\* Array.prototype.sort has exactly one result when the comparator is a
\* strict total order.  lt holds the pairs << a.id, b.id >> the comparator
\* puts in that order; it orders the rows of X as a strict total order.
Consistent(X, lt) ==
    /\ \A a, b \in X : a # b => (<< a.id, b.id >> \in lt) # (<< b.id, a.id >> \in lt)
    /\ \A a, b, d \in X :
          << a.id, b.id >> \in lt /\ << b.id, d.id >> \in lt => << a.id, d.id >> \in lt

\* Results of rows.sort(cmp).  A consistent comparator gives the one sorted
\* table.  With an inconsistent comparator the order is
\* implementation-defined; the insertion and merge sorts engines use leave
\* every two neighbours in the order the comparator gave for them, so the
\* results are the arrangements in which cmp puts each row before the next.
SortOutcomes(rows, cmp(_, _)) ==
    LET S == Range(rows)
        lt == UNION { { << a.id, b.id >> : b \in { q \in S : cmp(a, q) < 0 } } : a \in S }
        before(r) == { q \in S : << q.id, r.id >> \in lt }
    IN IF Consistent(S, lt)
       THEN { [i \in 1 .. Len(rows) |-> CHOOSE r \in S : Cardinality(before(r)) = i - 1] }
       ELSE { p \in Perms(S) :
                \A i \in 1 .. (Len(p) - 1) : << p[i].id, p[i + 1].id >> \in lt }

\* Group.recalculateStandings(): every table it may leave.
recalculateStandings(teams, matches) ==
    LET cmp(a, b) == Group_compare(matches, a, b)
    IN SortOutcomes(AccumulateRows(teams, matches), cmp)

\* Helpers.calculateGroupStandings(teams, matches)
calculateGroupStandings(teams, matches) ==
    LET cmp(a, b) == Helpers_compare(matches, a, b)
    IN SortOutcomes(AccumulateRows(teams, matches), cmp)

\* Group.isCompleted() with some in place of every.
isCompleted_SomePlayed(group) == \E k \in DOMAIN group.matches : group.matches[k].played

\* Group.isCompleted() / Helpers.areAllMatchesPlayed(matches)
isCompleted(group) == \A k \in DOMAIN group.matches : group.matches[k].played

\* ------------------------------------------------------------------------
\* KnockoutController: bracket generation (js/controllers/knockoutController.js)

Pair(i, home, away) == [index |-> i, home |-> home, away |-> away]

\* pairings.forEach((pair, index) => if (pair.home && pair.away) push(new Match(...)))
MatchesOfPairings(pairings, prefix, round) ==
    LET present(p) == p.home # Null /\ p.away # Null
        kept == SelectSeq(pairings, present)
    IN [k \in DOMAIN kept |->
          Match(prefix \o ToString(kept[k].index), kept[k].home, kept[k].away, 0, round, "")]

\* roundName.toLowerCase().replace(/\s+/g, '_')
RoundSlug(roundName) ==
    CASE roundName = "Round of 16" -> "round_of_16"
      [] roundName = "Quarterfinals" -> "quarterfinals"
      [] roundName = "Semifinals" -> "semifinals"
      [] roundName = "Final" -> "final"
      [] OTHER -> ""

\* generateEmptyRound with the loop ended one match early.
generateEmptyRound_OneShort(count, roundName) ==
    [k \in 1 .. (count - 1) |->
        Match(RoundSlug(roundName) \o "_" \o ToString(k - 1), TBD, TBD, 0, roundName, "")]

\* generateEmptyRound(count, roundName = '', roundIndex = 0)
generateEmptyRound(count, roundName) ==
    [k \in 1 .. count |->
        Match(RoundSlug(roundName) \o "_" \o ToString(k - 1), TBD, TBD, 0, roundName, "")]

\* a || b on possibly undefined list elements
OrElse(a, b) == IF a # Null THEN a ELSE b

\* generateRoundOf16(winners, runnersUp, bestThirds)
KC_generateRoundOf16(winners, runnersUp, bestThirds) ==
    MatchesOfPairings(
      << Pair(0, At(winners, 0), At(runnersUp, 3)),
         Pair(1, At(winners, 1), At(runnersUp, 2)),
         Pair(2, At(winners, 2), At(runnersUp, 1)),
         Pair(3, At(winners, 3), At(runnersUp, 0)),
         Pair(4, At(winners, 4), At(bestThirds, 0)),
         Pair(5, At(winners, 5), At(bestThirds, 1)),
         Pair(6, OrElse(At(winners, 6), At(bestThirds, 2)), OrElse(At(bestThirds, 3), At(runnersUp, 5))),
         Pair(7, OrElse(At(winners, 7), At(bestThirds, 3)), OrElse(At(bestThirds, 2), At(runnersUp, 4))) >>,
      "r16_", "Round of 16")

\* generateQuarterfinals(winners, runnersUp, bestThirds)
KC_generateQuarterfinals(winners, runnersUp, bestThirds) ==
    IF Len(winners) > 0 \/ Len(runnersUp) > 0 \/ Len(bestThirds) > 0
    THEN LET allTeams == winners \o runnersUp \o bestThirds
             pairings ==
               CASE Len(winners) = 2 ->
                      << Pair(0, At(winners, 0), At(runnersUp, 1)),
                         Pair(1, At(winners, 1), At(runnersUp, 0)) >>
                 [] Len(winners) = 3 ->
                      << Pair(0, At(winners, 0), At(bestThirds, 0)),
                         Pair(1, At(winners, 1), At(runnersUp, 2)),
                         Pair(2, At(winners, 2), At(runnersUp, 1)),
                         Pair(3, At(runnersUp, 0), At(bestThirds, 1)) >>
                 [] Len(winners) = 4 ->
                      << Pair(0, At(winners, 0), At(runnersUp, 3)),
                         Pair(1, At(winners, 1), At(runnersUp, 2)),
                         Pair(2, At(winners, 2), At(runnersUp, 1)),
                         Pair(3, At(winners, 3), At(runnersUp, 0)) >>
                 [] OTHER ->
                      LET n == IF Len(allTeams) < 8 THEN Len(allTeams) \div 2 ELSE 4
                      IN [k \in 1 .. n |-> Pair(k - 1, At(allTeams, 2 * (k - 1)), At(allTeams, 2 * (k - 1) + 1))]
         IN MatchesOfPairings(pairings, "qf_", "Quarterfinals")
    ELSE generateEmptyRound(4, "Quarterfinals")

\* generateSemifinals(teams)
KC_generateSemifinals(teams) ==
    IF Len(teams) > 0
    THEN IF Len(teams) >= 4
         THEN << Match("sf_0", At(teams, 0), At(teams, 3), 0, "Semifinals", ""),
                 Match("sf_1", At(teams, 1), At(teams, 2), 0, "Semifinals", "") >>
         ELSE << >>
    ELSE generateEmptyRound(2, "Semifinals")

\* generateFinals()
KC_generateFinals == << Match("final_0", TBD, TBD, 0, "Final", "") >>

Round(name, matches) == [name |-> name, matches |-> matches]

\* Group counts generateKnockoutStage has a case for.
SupportedGroupCounts == {1, 2, 3, 4, 6, 8}

\* generateKnockoutStage(qualifiedTeams, groupCount): the new _rounds
\* (the default case returns [] and leaves _rounds alone).
KC_generateKnockoutStage(q, groupCount, oldRounds) ==
    CASE groupCount = 1 ->
           << Round("Semifinals", KC_generateSemifinals(q.winners)),
              Round("Final", KC_generateFinals) >>
      [] groupCount \in {2, 3, 4} ->
           << Round("Quarterfinals", KC_generateQuarterfinals(q.winners, q.runnersUp, q.bestThirds)),
              Round("Semifinals", KC_generateSemifinals(<< >>)),
              Round("Final", KC_generateFinals) >>
      [] groupCount \in {6, 8} ->
           << Round("Round of 16", KC_generateRoundOf16(q.winners, q.runnersUp, q.bestThirds)),
              Round("Quarterfinals", generateEmptyRound(4, "")),
              Round("Semifinals", generateEmptyRound(2, "")),
              Round("Final", KC_generateFinals) >>
      [] OTHER -> oldRounds

\* ------------------------------------------------------------------------
\* GroupController.getQualifiedTeams(): rows flagged qualified, by position.

RECURSIVE Flatten(_)
Flatten(ss) == IF ss = << >> THEN << >> ELSE Head(ss) \o Flatten(Tail(ss))

getQualifiedTeams(gs) ==
    LET ids(rows) == [i \in DOMAIN rows |-> rows[i].id]
        winnersOf(g) == IF Len(g.standings) >= 1 /\ g.standings[1].qualified
                        THEN << g.standings[1].id >> ELSE << >>
        runnersOf(g) == IF Len(g.standings) >= 2 /\ g.standings[2].qualified
                        THEN << g.standings[2].id >> ELSE << >>
        third(r) == r.qualified /\ r.bestThird
        thirdsOf(g) == IF Len(g.standings) >= 3
                       THEN ids(SelectSeq(SubSeq(g.standings, 3, Len(g.standings)), third))
                       ELSE << >>
    IN [winners |-> Flatten([i \in DOMAIN gs |-> winnersOf(gs[i])]),
        runnersUp |-> Flatten([i \in DOMAIN gs |-> runnersOf(gs[i])]),
        bestThirds |-> Flatten([i \in DOMAIN gs |-> thirdsOf(gs[i])])]

\* GroupController.isGroupStageCompleted(): [].every(...) is true.
isGroupStageCompleted(gs) == \A i \in DOMAIN gs : isCompleted(gs[i])

\* KnockoutController.isTournamentComplete()
isTournamentComplete(rs) ==
    /\ Len(rs) # 0
    /\ \A k \in DOMAIN rs[Len(rs)].matches : rs[Len(rs)].matches[k].played

\* KnockoutController.getTournamentWinner()
getTournamentWinner(rs) ==
    IF ~isTournamentComplete(rs) \/ Len(rs) = 0 THEN Null
    ELSE IF Len(rs[Len(rs)].matches) = 0 THEN Null
    ELSE rs[Len(rs)].matches[1].winner

\* Every match of the knockout rounds / of the groups.
KnockoutMatchesOf(rs) == UNION { Range(rs[i].matches) : i \in DOMAIN rs }

GroupMatchesOf(gs) == UNION { Range(gs[i].matches) : i \in DOMAIN gs }

\* ------------------------------------------------------------------------
\* State of the controller stack.

VARIABLES
    tournament,   \* TournamentController._tournament: exists, status, groupCount
    stage,        \* TournamentController._currentStage (= _tournament.currentStage after every save)
    groups,       \* GroupController._groups (= _tournament.groups after every save)
    rounds,       \* KnockoutController._rounds (= _tournament.knockout after every save)
    ret,          \* what the last call returned
    emitted,      \* notifications the last call triggered, in order
    instance,     \* a Tournament object driven directly through its own methods
    league        \* LeagueManager._currentLeague: players, fixtures, stats

vars == << tournament, stage, groups, rounds, ret, emitted, instance, league >>

controllerVars == << tournament, stage, groups, rounds >>

NoTournament == [exists |-> FALSE, status |-> "", groupCount |-> 0]

NoInstance ==
    [exists |-> FALSE, groupCount |-> 0, currentStage |-> "", status |-> "",
     groups |-> << >>, knockout |-> << >>, events |-> << >>]

\* let _currentLeague = null
NoLeague == [exists |-> FALSE, players |-> << >>, fixtures |-> << >>,
             stats |-> [totalGoals |-> 0, matchesPlayed |-> 0, totalMatches |-> 0, averageGoals |-> 0]]

TOURNAMENT_STAGES == { "setup", "group", "knockout", "complete" }

\* Configurations a client passes to createTournament.
CreateConfigs ==
    { [groupCount |-> 1, teams |-> << 1, 2, 3, 4 >>],
      [groupCount |-> 1, teams |-> << 1, 2, 3 >>],
      [groupCount |-> 1, teams |-> << >>] }

\* Match ids a client may name.
GroupMatchIds ==
    UNION { { generateMatchSchedule(p)[k].id : k \in 1 .. 6 } : p \in shuffleArray(<< 1, 2, 3, 4 >>) }

KnockoutMatchIds == { "final_0" }

UnknownMatchId == "no_such_match"

MatchIdInputs == GroupMatchIds \union KnockoutMatchIds \union { UnknownMatchId }

\* A regulation-only result as MatchController passes it on.
RegulationOnly(s) == [reg |-> s, et |-> NoScores, pens |-> NoScores]

\* (matchId, result) a client passes to GroupController.updateMatchResult,
\* KnockoutController.updateMatchResult and MatchController.updateMatchResult.
GroupInputs == (GroupMatchIds \union { UnknownMatchId }) \X GroupScoreInputs

KnockoutCallInputs == (KnockoutMatchIds \union { UnknownMatchId }) \X KnockoutInputs

MatchInputs ==
    (GroupMatchIds \X { RegulationOnly(s) : s \in GroupScoreInputs }) \union KnockoutCallInputs

Init ==
    /\ tournament = NoTournament
    /\ stage = "setup"
    /\ groups = << >>
    /\ rounds = << >>
    /\ ret = "none"
    /\ emitted = << >>
    /\ instance = NoInstance
    /\ league = NoLeague

\* ------------------------------------------------------------------------
\* Tournament constructor and TournamentController.createTournament

\* Tournament._initializeGroups(teamNames) on one shuffle outcome.
initializeGroups(groupCount, shuffledTeams) ==
    [i \in 1 .. groupCount |->
        LET groupTeams == SubSeq(shuffledTeams, 4 * (i - 1) + 1, 4 * i)
            matches == generateMatchSchedule(groupTeams)
        IN [id |-> i, name |-> i, teams |-> groupTeams, matches |-> matches,
            standings |-> CHOOSE st \in calculateGroupStandings(groupTeams, matches) : TRUE]]

\* new Tournament(config) throws when teams are given but too few.
ConstructorThrows(config) ==
    LET groupCount == IF config.groupCount = 0 THEN 1 ELSE config.groupCount
    IN Len(config.teams) > 0 /\ Len(config.teams) < groupCount * 4

createTournament(config) ==
    IF ConstructorThrows(config)
       THEN /\ ret' = "null"
            /\ emitted' = << >>
            /\ UNCHANGED << tournament, stage, groups, rounds >>
       ELSE LET groupCount == IF config.groupCount = 0 THEN 1 ELSE config.groupCount
            IN /\ tournament' = [exists |-> TRUE, status |-> "active", groupCount |-> groupCount]
               /\ IF Len(config.teams) > 0
                  THEN /\ \E shuffled \in shuffleArray(config.teams) :
                             groups' = initializeGroups(groupCount, shuffled)
                       /\ stage' = "group"
                  ELSE UNCHANGED << groups, stage >>
               /\ ret' = "tournament"
               /\ emitted' = << "tournamentCreated" >>
               /\ UNCHANGED rounds

\* ------------------------------------------------------------------------
\* TournamentController.progressToNextStage / setCurrentStage / notify*

\* The effect of progressToNextStage() on (stage, status, rounds), with the
\* notifications of setCurrentStage and the value returned.
progressToNextStage(st, tour, gs, rs) ==
    LET same == [stage |-> st, status |-> tour.status, rounds |-> rs,
                 emitted |-> << >>, ret |-> "false"]
    IN CASE st = "setup" ->
              [same EXCEPT !.stage = "group", !.emitted = << "stageChanged" >>, !.ret = "true"]
         [] st = "group" ->
              IF isGroupStageCompleted(gs)
              THEN IF ~tour.exists
                   THEN [same EXCEPT !.ret = "throws"]
                   ELSE [same EXCEPT
                           !.rounds = KC_generateKnockoutStage(getQualifiedTeams(gs), Len(gs), rs),
                           !.stage = "knockout",
                           !.emitted = << "stageChanged" >>, !.ret = "true"]
              ELSE same
         [] st = "knockout" ->
              IF isTournamentComplete(rs)
              THEN [same EXCEPT !.status = "completed", !.stage = "complete",
                                !.emitted = << "stageChanged" >>, !.ret = "true"]
              ELSE same
         [] OTHER -> same

ProgressToNextStage ==
    LET r == progressToNextStage(stage, tournament, groups, rounds)
    IN /\ stage' = r.stage
       /\ rounds' = r.rounds
       /\ tournament' = IF tournament.exists THEN [tournament EXCEPT !.status = r.status]
                        ELSE tournament
       /\ ret' = r.ret
       /\ emitted' = r.emitted
       /\ UNCHANGED groups

\* notifyGroupStageCompleted(), called by a client
NotifyGroupStageCompleted ==
    LET r == progressToNextStage(stage, tournament, groups, rounds)
    IN /\ stage' = r.stage
       /\ rounds' = r.rounds
       /\ tournament' = IF tournament.exists THEN [tournament EXCEPT !.status = r.status]
                        ELSE tournament
       /\ ret' = IF r.ret = "throws" THEN "throws" ELSE "undefined"
       /\ emitted' = IF r.ret = "throws" THEN << >>
                     ELSE r.emitted \o << "groupStageCompleted" >>
       /\ UNCHANGED groups

\* notifyTournamentCompleted(winner) with setCurrentStage given the
\* knockout stage instead of the complete stage.
NotifyTournamentCompleted_ToKnockout ==
    /\ IF tournament.exists
       THEN /\ tournament' = [tournament EXCEPT !.status = "completed"]
            /\ stage' = "knockout"
            /\ ret' = "undefined"
            /\ emitted' = << "stageChanged", "tournamentCompleted" >>
       ELSE /\ ret' = "throws"
            /\ emitted' = << >>
            /\ UNCHANGED << tournament, stage >>
    /\ UNCHANGED << groups, rounds >>

\* notifyTournamentCompleted(winner), called by a client: without a
\* tournament the first assignment throws.
NotifyTournamentCompleted ==
    /\ IF tournament.exists
       THEN /\ tournament' = [tournament EXCEPT !.status = "completed"]
            /\ stage' = "complete"
            /\ ret' = "undefined"
            /\ emitted' = << "stageChanged", "tournamentCompleted" >>
       ELSE /\ ret' = "throws"
            /\ emitted' = << >>
            /\ UNCHANGED << tournament, stage >>
    /\ UNCHANGED << groups, rounds >>

\* ------------------------------------------------------------------------
\* GroupController.updateMatchResult(matchId, homeScore, awayScore)

HasMatch(container, matchId) ==
    \E k \in DOMAIN container.matches : container.matches[k].id = matchId

MatchIndex(container, matchId) ==
    LET is(m) == m.id = matchId IN FindIndex(container.matches, is)

GroupIndex(gs, matchId) ==
    LET has(g) == HasMatch(g, matchId) IN FindIndex(gs, has)

GC_updateMatchResult(matchId, homeScore, awayScore) ==
    LET groupIndex == GroupIndex(groups, matchId)
    IN IF groupIndex = -1
       THEN /\ ret' = "false"
            /\ emitted' = << >>
            /\ UNCHANGED << tournament, stage, groups, rounds >>
       ELSE LET g == groups[groupIndex + 1]
                k == MatchIndex(g, matchId) + 1
                matches == [g.matches EXCEPT ![k] = Match_updateResult(@, homeScore, awayScore)]
            IN \E st \in recalculateStandings(g.teams, matches) :
                 LET gs == [groups EXCEPT ![groupIndex + 1] =
                               [g EXCEPT !.matches = matches, !.standings = st]]
                     done == isGroupStageCompleted(gs)
                     r == progressToNextStage(stage, tournament, gs, rounds)
                 IN /\ groups' = gs
                    /\ stage' = IF done THEN r.stage ELSE stage
                    /\ rounds' = IF done THEN r.rounds ELSE rounds
                    /\ tournament' = IF done THEN [tournament EXCEPT !.status = r.status]
                                     ELSE tournament
                    /\ emitted' = IF done
                                  THEN << "matchUpdated" >> \o r.emitted \o << "groupStageCompleted" >>
                                  ELSE << "matchUpdated" >>
                    /\ ret' = "true"

\* ------------------------------------------------------------------------
\* KnockoutController.updateMatchResult / progressWinnerToNextRound

RoundIndex(rs, matchId) ==
    LET has(r) == HasMatch(r, matchId) IN FindIndex(rs, has)

\* The match after updateResult and the extra-time / penalty blocks.
KC_applyResult(m, in) ==
    LET h == in.reg[1]
        a == in.reg[2]
        m1 == Match_updateResult(m, h, a)
        m2 == IF in.et # NoScores
              THEN [m1 EXCEPT
                      !.extraTime = [played |-> TRUE, homeScore |-> in.et[1], awayScore |-> in.et[2]],
                      !.winner = IF h + in.et[1] > a + in.et[2] THEN m.homeTeam
                                 ELSE IF a + in.et[2] > h + in.et[1] THEN m.awayTeam
                                 ELSE Null]
              ELSE m1
        m3 == IF in.pens # NoScores
              THEN [m2 EXCEPT
                      !.penalties = [played |-> TRUE, homeScore |-> in.pens[1], awayScore |-> in.pens[2],
                                     winner |-> IF in.pens[1] > in.pens[2] THEN m.homeTeam
                                                ELSE IF in.pens[1] < in.pens[2] THEN m.awayTeam
                                                ELSE m2.penalties.winner],
                      !.winner = IF in.pens[1] > in.pens[2] THEN m.homeTeam
                                 ELSE IF in.pens[1] < in.pens[2] THEN m.awayTeam
                                 ELSE m2.winner]
              ELSE m2
    IN IF m3.winner = Null
       THEN [m3 EXCEPT !.winner = IF h > a THEN m.homeTeam
                                  ELSE IF a > h THEN m.awayTeam
                                  ELSE Null]
       ELSE m3

\* progressWinnerToNextRound with the home and away slots exchanged.
progressWinnerToNextRound_SlotsExchanged(rs, match, roundIndex, matchIndex) ==
    IF match.winner = Null \/ roundIndex >= Len(rs) - 1 THEN rs
    ELSE LET nextMatchIndex == matchIndex \div 2
         IN IF nextMatchIndex < Len(rs[roundIndex + 2].matches)
            THEN IF matchIndex % 2 = 0
                 THEN [rs EXCEPT ![roundIndex + 2].matches[nextMatchIndex + 1].awayTeam = match.winner]
                 ELSE [rs EXCEPT ![roundIndex + 2].matches[nextMatchIndex + 1].homeTeam = match.winner]
            ELSE rs

\* progressWinnerToNextRound writing the winner to both sides of the next
\* match.
progressWinnerToNextRound_BothSides(rs, match, roundIndex, matchIndex) ==
    IF match.winner = Null \/ roundIndex >= Len(rs) - 1 THEN rs
    ELSE LET nextMatchIndex == matchIndex \div 2
         IN IF nextMatchIndex < Len(rs[roundIndex + 2].matches)
            THEN [rs EXCEPT ![roundIndex + 2].matches[nextMatchIndex + 1].homeTeam = match.winner,
                            ![roundIndex + 2].matches[nextMatchIndex + 1].awayTeam = match.winner]
            ELSE rs

\* progressWinnerToNextRound(match, roundIndex, matchIndex), 0-based indices
progressWinnerToNextRound(rs, match, roundIndex, matchIndex) ==
    IF match.winner = Null \/ roundIndex >= Len(rs) - 1 THEN rs
    ELSE LET nextMatchIndex == matchIndex \div 2
         IN IF nextMatchIndex < Len(rs[roundIndex + 2].matches)
            THEN IF matchIndex % 2 = 0
                 THEN [rs EXCEPT ![roundIndex + 2].matches[nextMatchIndex + 1].homeTeam = match.winner]
                 ELSE [rs EXCEPT ![roundIndex + 2].matches[nextMatchIndex + 1].awayTeam = match.winner]
            ELSE rs

\* if (!matchFound || !match) return false;
KC_matchNotFound_Notifies ==
    /\ ret' = "false"
    /\ emitted' = << "matchUpdated" >>
    /\ UNCHANGED << tournament, stage, groups, rounds >>

KC_matchNotFound ==
    /\ ret' = "false"
    /\ emitted' = << >>
    /\ UNCHANGED << tournament, stage, groups, rounds >>

KC_updateMatchResult(matchId, in) ==
    LET roundIndex == RoundIndex(rounds, matchId)
    IN IF roundIndex = -1
       THEN KC_matchNotFound
       ELSE LET matchIndex == MatchIndex(rounds[roundIndex + 1], matchId)
                match == KC_applyResult(rounds[roundIndex + 1].matches[matchIndex + 1], in)
                rs1 == [rounds EXCEPT ![roundIndex + 1].matches[matchIndex + 1] = match]
                rs2 == progressWinnerToNextRound(rs1, match, roundIndex, matchIndex)
                complete == isTournamentComplete(rs2)
            IN /\ rounds' = rs2
               /\ stage' = IF complete THEN "complete" ELSE stage
               /\ tournament' = IF complete THEN [tournament EXCEPT !.status = "completed"]
                                ELSE tournament
               /\ emitted' = IF complete
                             THEN << "matchUpdated", "stageChanged", "tournamentCompleted" >>
                             ELSE << "matchUpdated" >>
               /\ ret' = "true"
               /\ UNCHANGED groups

\* ------------------------------------------------------------------------
\* MatchController.getMatchById / updateMatchResult

\* The match the lookup resolves to: groups first, then knockout rounds.
MC_getMatchById(matchId) ==
    IF GroupIndex(groups, matchId) # -1
    THEN LET g == groups[GroupIndex(groups, matchId) + 1]
         IN << g.matches[MatchIndex(g, matchId) + 1] >>
    ELSE IF RoundIndex(rounds, matchId) # -1
    THEN LET r == rounds[RoundIndex(rounds, matchId) + 1]
         IN << r.matches[MatchIndex(r, matchId) + 1] >>
    ELSE << >>

MC_updateMatchResult(matchId, in) ==
    LET found == MC_getMatchById(matchId)
    IN IF found = << >>
       THEN /\ ret' = "false"
            /\ emitted' = << >>
            /\ UNCHANGED << tournament, stage, groups, rounds >>
       ELSE IF found[1].group # ""
       THEN GC_updateMatchResult(matchId, in.reg[1], in.reg[2])
       ELSE IF found[1].round # ""
       THEN KC_updateMatchResult(matchId, in)
       ELSE /\ ret' = "false"
            /\ emitted' = << >>
            /\ UNCHANGED << tournament, stage, groups, rounds >>

\* ------------------------------------------------------------------------
\* TournamentController.resetTournament / KnockoutController.resetKnockoutStage

\* resetTournament's clearing of a match, with the winner left in place.
resetMatch_KeepsWinner(m) ==
    [m EXCEPT !.homeScore = Null, !.awayScore = Null, !.played = FALSE]

resetMatch(m) ==
    [m EXCEPT !.homeScore = Null, !.awayScore = Null, !.played = FALSE, !.winner = Null]

resetKnockoutStage(rs) ==
    [i \in DOMAIN rs |->
        [rs[i] EXCEPT !.matches =
            [k \in DOMAIN rs[i].matches |->
                [resetMatch(rs[i].matches[k]) EXCEPT !.extraTime = NoExtraTime,
                                                     !.penalties = NoPenalties]]]]

\* The per-group part of resetTournament without group.recalculateStandings().
resetGroup_StaleStandings(g) ==
    [g EXCEPT !.matches = [k \in DOMAIN g.matches |-> resetMatch(g.matches[k])]]

\* One group after its matches are cleared; with no match played every
\* row is level and the table is ordered by name alone.
resetGroup(g) ==
    LET matches == [k \in DOMAIN g.matches |-> resetMatch(g.matches[k])]
    IN [g EXCEPT !.matches = matches,
                 !.standings = CHOOSE st \in recalculateStandings(g.teams, matches) : TRUE]

resetTournament ==
    IF ~tournament.exists
    THEN /\ ret' = "false"
         /\ emitted' = << >>
         /\ UNCHANGED << tournament, stage, groups, rounds >>
    ELSE /\ groups' = [i \in DOMAIN groups |-> resetGroup(groups[i])]
         /\ rounds' = resetKnockoutStage(rounds)
         /\ stage' = "group"
         /\ tournament' = [tournament EXCEPT !.status = "active"]
         /\ ret' = "true"
         /\ emitted' = << "tournamentReset" >>

\* ------------------------------------------------------------------------
\* Helpers: qualification and bracket generation used by the Tournament class.
\* Placeholder teams are objects with their own ids; they are numbered
\* below -9 here, real teams are positive.

sf_direct(pos) == -(10 + pos)
qf_home(i) == -(30 + i)
qf_away(i) == -(35 + i)
sf_home(i) == -(40 + i)
sf_away(i) == -(45 + i)
final_home == -50
final_away == -51

\* Helpers.determineQualifiedTeams(groups): the ids of the rows taken.
determineQualifiedTeams(gs) ==
    LET having(n) == SelectSeq(gs, LAMBDA g : Len(g.standings) >= n + 1)
        rowsAt(n) == [k \in DOMAIN having(n) |-> having(n)[k].standings[n + 1]]
        thirds == rowsAt(2)
        cmp(a, b) == Helpers_compare(<< >>, a, b)
        required == IF Len(gs) = 3 THEN 2 ELSE 4
        ids(rows) == [k \in DOMAIN rows |-> rows[k].id]
    IN { [winners |-> ids(rowsAt(0)),
          runnersUp |-> ids(rowsAt(1)),
          bestThirds |-> IF Len(gs) \in { 3, 6 }
                         THEN ids(SubSeq(sorted, 1, IF Len(sorted) < required THEN Len(sorted) ELSE required))
                         ELSE << >>] :
         sorted \in IF Len(gs) \in { 3, 6 } /\ thirds # << >>
                    THEN SortOutcomes(thirds, cmp) ELSE { << >> } }

\* Helpers.generateRoundOf16(winners, runnersUp, bestThirds)
Helpers_generateRoundOf16(winners, runnersUp, bestThirds) ==
    MatchesOfPairings(
      << Pair(0, At(winners, 0), At(runnersUp, 3)),
         Pair(1, At(winners, 1), At(runnersUp, 2)),
         Pair(2, At(winners, 2), At(runnersUp, 1)),
         Pair(3, At(winners, 3), At(runnersUp, 0)),
         Pair(4, At(winners, 4), At(bestThirds, 0)),
         Pair(5, At(winners, 5), At(bestThirds, 1)),
         Pair(6, At(winners, 6), At(bestThirds, 2)),
         Pair(7, At(winners, 7), At(bestThirds, 3)) >>,
      "r16_", "Round of 16")

\* Helpers.generateQuarterfinals(winners, runnersUp, bestThirds)
Helpers_generateQuarterfinals(winners, runnersUp, bestThirds) ==
    IF Len(winners) > 0 \/ Len(runnersUp) > 0 \/ Len(bestThirds) > 0
    THEN LET allTeams == winners \o runnersUp \o bestThirds
             kept == SelectSeq(<< 0, 1, 2, 3 >>, LAMBDA i : i * 2 + 1 < Len(allTeams))
         IN [k \in DOMAIN kept |->
               Match("qf_" \o ToString(kept[k]), At(allTeams, kept[k] * 2),
                     At(allTeams, kept[k] * 2 + 1), 0, "Quarterfinals", "")]
    ELSE [k \in 1 .. 4 |->
            Match("qf_" \o ToString(k - 1), qf_home(k - 1), qf_away(k - 1), 0, "Quarterfinals", "")]

\* Helpers.generateSemifinals(winners): with winners given, both sides are
\* placeholders named after the positions of the first winner's group.
Helpers_generateSemifinals(winners) ==
    IF Len(winners) > 0
    THEN LET kept == SelectSeq(<< 0, 1 >>, LAMBDA i : i * 2 + 1 < Len(winners) * 4)
         IN [k \in DOMAIN kept |->
               Match("sf_" \o ToString(kept[k]), sf_direct(kept[k] * 2),
                     sf_direct(kept[k] * 2 + 1), 0, "Semifinals", "")]
    ELSE [k \in 1 .. 2 |->
            Match("sf_" \o ToString(k - 1), sf_home(k - 1), sf_away(k - 1), 0, "Semifinals", "")]

\* Helpers.generateFinal()
Helpers_generateFinal == << Match("final", final_home, final_away, 0, "Final", "") >>

\* Helpers.generateKnockoutStage(qualifiedTeams, groupCount)
Helpers_generateKnockoutStage(q, groupCount) ==
    CASE groupCount = 1 ->
           << Round("Semifinals", Helpers_generateSemifinals(SubSeq(q.winners, 1, IF Len(q.winners) < 1 THEN 0 ELSE 1))),
              Round("Final", Helpers_generateFinal) >>
      [] groupCount \in { 2, 4 } ->
           << Round("Quarterfinals", Helpers_generateQuarterfinals(q.winners, q.runnersUp, << >>)),
              Round("Semifinals", Helpers_generateSemifinals(<< >>)),
              Round("Final", Helpers_generateFinal) >>
      [] groupCount = 3 ->
           << Round("Quarterfinals", Helpers_generateQuarterfinals(q.winners, q.runnersUp, q.bestThirds)),
              Round("Semifinals", Helpers_generateSemifinals(<< >>)),
              Round("Final", Helpers_generateFinal) >>
      [] groupCount \in { 6, 8 } ->
           << Round("Round of 16", Helpers_generateRoundOf16(q.winners, q.runnersUp, q.bestThirds)),
              Round("Quarterfinals", Helpers_generateQuarterfinals(<< >>, << >>, << >>)),
              Round("Semifinals", Helpers_generateSemifinals(<< >>)),
              Round("Final", Helpers_generateFinal) >>
      [] OTHER -> << >>

\* Helpers.updateMatchResult(match, homeScore, awayScore)
Helpers_updateMatchResult(m, homeScore, awayScore) ==
    [m EXCEPT !.homeScore = homeScore, !.awayScore = awayScore, !.played = TRUE,
              !.winner = IF homeScore > awayScore THEN m.homeTeam
                         ELSE IF homeScore < awayScore THEN m.awayTeam
                         ELSE Null]

\* ------------------------------------------------------------------------
\* The Tournament class, driven directly: constructor and updateMatchResult.

\* Ids of the knockout matches Helpers generates for one group.
HelperKnockoutIds == { "sf_0", "sf_1", "final" }

\* Results a client submits for a knockout match of the Tournament class.
KnockoutScoreInputs == { << 1, 0 >>, << 1, 1 >> }

\* (matchId, scores) a client passes to Tournament.updateMatchResult.
TournamentInputs ==
    (GroupMatchIds \X GroupScoreInputs)
       \union (HelperKnockoutIds \X KnockoutScoreInputs)
       \union ({ UnknownMatchId } \X GroupScoreInputs)

\* new Tournament(config)
Tournament_new(config) ==
    /\ IF ConstructorThrows(config)
       THEN /\ ret' = "throws"
            /\ UNCHANGED instance
       ELSE LET groupCount == IF config.groupCount = 0 THEN 1 ELSE config.groupCount
            IN /\ \E shuffled \in shuffleArray(config.teams) :
                    instance' = [exists |-> TRUE, groupCount |-> groupCount,
                                 currentStage |-> "group", status |-> "active",
                                 groups |-> IF Len(config.teams) > 0
                                            THEN initializeGroups(groupCount, shuffled)
                                            ELSE << >>,
                                 knockout |-> << >>, events |-> << >>]
               /\ ret' = "tournament"
    /\ emitted' = << >>
    /\ UNCHANGED << controllerVars, league >>

\* Tournament._updateKnockoutProgression(match) on the instance t, for the
\* match at (0-based) roundIndex / matchPosition.
updateKnockoutProgression(t, match, roundIndex, matchPosition) ==
    IF match.winner = Null THEN t
    ELSE IF roundIndex + 1 < Len(t.knockout)
    THEN LET nextMatchIndex == matchPosition \div 2
         IN IF nextMatchIndex < Len(t.knockout[roundIndex + 2].matches)
            THEN [t EXCEPT
                    !.knockout[roundIndex + 2].matches[nextMatchIndex + 1] =
                        IF matchPosition % 2 = 0
                        THEN [@ EXCEPT !.homeTeam = match.winner]
                        ELSE [@ EXCEPT !.awayTeam = match.winner],
                    !.events = Append(@, "team_advanced")]
            ELSE t
    ELSE [t EXCEPT !.status = "completed", !.events = Append(@, "tournament_completed")]

\* Tournament._checkGroupsCompletion(): every instance it may leave.
checkGroupsCompletion(t) ==
    IF (\A i \in DOMAIN t.groups : isCompleted(t.groups[i])) /\ t.currentStage = "group"
    THEN { [t EXCEPT !.knockout = Helpers_generateKnockoutStage(q, t.groupCount),
                     !.currentStage = "knockout",
                     !.events = Append(@, "group_stage_completed")] :
           q \in determineQualifiedTeams(t.groups) }
    ELSE { t }

\* Tournament.updateMatchResult(matchId, homeScore, awayScore): the pairs
\* << instance, matchUpdated >> it may leave.
Tournament_update(t, matchId, homeScore, awayScore) ==
    IF t.currentStage = "group"
    THEN LET groupIndex == GroupIndex(t.groups, matchId)
         IN IF groupIndex = -1 THEN { << t, FALSE >> }
            ELSE LET g == t.groups[groupIndex + 1]
                     k == MatchIndex(g, matchId) + 1
                     matches == [g.matches EXCEPT ![k] = Helpers_updateMatchResult(@, homeScore, awayScore)]
                 IN UNION { LET t1 == [t EXCEPT !.groups[groupIndex + 1] =
                                          [g EXCEPT !.matches = matches, !.standings = st]]
                            IN { << t2, TRUE >> :
                                 t2 \in IF isCompleted(t1.groups[groupIndex + 1])
                                        THEN checkGroupsCompletion(t1) ELSE { t1 } } :
                            st \in calculateGroupStandings(g.teams, matches) }
    ELSE IF t.currentStage = "knockout" /\ t.knockout # << >>
    THEN LET roundIndex == RoundIndex(t.knockout, matchId)
         IN IF roundIndex = -1 THEN { << t, FALSE >> }
            ELSE LET matchIndex == MatchIndex(t.knockout[roundIndex + 1], matchId)
                     match == Helpers_updateMatchResult(
                                 t.knockout[roundIndex + 1].matches[matchIndex + 1],
                                 homeScore, awayScore)
                     t1 == [t EXCEPT !.knockout[roundIndex + 1].matches[matchIndex + 1] = match]
                 IN { << updateKnockoutProgression(t1, match, roundIndex, matchIndex), TRUE >> }
    ELSE { << t, FALSE >> }

Tournament_updateMatchResult(matchId, homeScore, awayScore) ==
    /\ instance.exists
    /\ Len(instance.events) + 2 <= MaxEvents
    /\ \E out \in Tournament_update(instance, matchId, homeScore, awayScore) :
          /\ instance' = IF out[2] THEN [out[1] EXCEPT !.events = Append(@, "match_updated")]
                         ELSE out[1]
          /\ ret' = IF out[2] THEN "true" ELSE "false"
    /\ emitted' = << >>
    /\ UNCHANGED << controllerVars, league >>

\* ------------------------------------------------------------------------

\* The controllers never call the Tournament object's update methods and
\* a Tournament object driven directly never reaches the controllers: a
\* behaviour drives one of the two.
ControllerOnly == ~instance.exists /\ UNCHANGED << instance, league >>

TournamentOnly == ~tournament.exists /\ stage = "setup"

Create ==
    \E config \in CreateConfigs : createTournament(config) /\ ControllerOnly

\* createTournament as the first call of a tournament's life.
CreateFirst ==
    /\ ~tournament.exists
    /\ \E config \in CreateConfigs : createTournament(config) /\ ControllerOnly

ControllerCalls ==
    \/ \E in \in GroupInputs :
          GC_updateMatchResult(in[1], in[2][1], in[2][2]) /\ ControllerOnly
    \/ \E in \in KnockoutCallInputs :
          KC_updateMatchResult(in[1], in[2]) /\ ControllerOnly
    \/ \E in \in MatchInputs :
          MC_updateMatchResult(in[1], in[2]) /\ ControllerOnly
    \/ ProgressToNextStage /\ ControllerOnly
    \/ NotifyGroupStageCompleted /\ ControllerOnly
    \/ NotifyTournamentCompleted /\ ControllerOnly
    \/ resetTournament /\ ControllerOnly

TournamentNew ==
    \E config \in CreateConfigs : Tournament_new(config) /\ TournamentOnly

\* new Tournament(config) as the first call of a tournament's life.
TournamentNewFirst ==
    /\ ~instance.exists
    /\ \E config \in CreateConfigs : Tournament_new(config) /\ TournamentOnly

TournamentUpdate ==
    \E in \in TournamentInputs :
       Tournament_updateMatchResult(in[1], in[2][1], in[2][2]) /\ TournamentOnly

Next == Create \/ ControllerCalls \/ TournamentNew \/ TournamentUpdate

\* The program: the controller stack driven through its public methods, or
\* a Tournament object driven through its own.
Spec == Init /\ [][Next]_vars

NextOneTournament == CreateFirst \/ ControllerCalls \/ TournamentNewFirst \/ TournamentUpdate

\* The life of one tournament: it is created once, by createTournament in
\* the controller stack or by new Tournament.
SpecOneTournament == Init /\ [][NextOneTournament]_vars

NextTournament == TournamentNew \/ TournamentUpdate

\* A Tournament object driven through its own methods.
SpecTournament == Init /\ [][NextTournament]_vars

\* ------------------------------------------------------------------------
\* Results whose scores are not all non-negative.

\* Regulation scores a client may submit for a group match, valid or not.
AnyGroupScoreInputs == GroupScoreInputs \union { << -2, 1 >> }

\* Knockout results a client may submit, valid or not.
AnyKnockoutInputs ==
    KnockoutInputs \union
       { [reg |-> << -2, 1 >>, et |-> NoScores, pens |-> NoScores],
         [reg |-> << 1, 1 >>, et |-> << -2, 0 >>, pens |-> NoScores],
         [reg |-> << 1, 1 >>, et |-> NoScores, pens |-> << -2, 3 >>] }

AnyScoreCalls ==
    \/ \E in \in GroupMatchIds \X AnyGroupScoreInputs :
          GC_updateMatchResult(in[1], in[2][1], in[2][2]) /\ ControllerOnly
    \/ \E in \in KnockoutMatchIds \X AnyKnockoutInputs :
          KC_updateMatchResult(in[1], in[2]) /\ ControllerOnly

NextAnyScores == CreateFirst \/ AnyScoreCalls

\* One tournament of the controller stack whose clients submit any scores.
SpecAnyScores == Init /\ [][NextAnyScores]_vars

\* ------------------------------------------------------------------------
\* Tournaments created one after another, from any configuration.

\* Configurations a client may pass to createTournament, with any number
\* of names: too few, none, four, one too many.
CreateConfigsAny ==
    CreateConfigs \union { [groupCount |-> 1, teams |-> << 1, 2, 3, 4, 5 >>] }

CreateAny == \E config \in CreateConfigsAny : createTournament(config) /\ ControllerOnly

ResultCalls ==
    \/ \E in \in GroupInputs :
          GC_updateMatchResult(in[1], in[2][1], in[2][2]) /\ ControllerOnly
    \/ \E in \in KnockoutCallInputs :
          KC_updateMatchResult(in[1], in[2]) /\ ControllerOnly

NextCreate == CreateAny \/ ResultCalls

\* The controller stack with createTournament called at any time.
SpecCreate == Init /\ [][NextCreate]_vars

\* Configurations with any number of groups: one group, and five groups of
\* four teams.
GroupCountConfigs ==
    { [groupCount |-> 1, teams |-> << 1, 2, 3, 4 >>],
      [groupCount |-> 5, teams |-> [i \in 1 .. 20 |-> i]] }

CreateFirstAnyGroupCount ==
    /\ ~tournament.exists
    /\ \E config \in GroupCountConfigs : createTournament(config) /\ ControllerOnly

NextAnyGroupCount == CreateFirstAnyGroupCount \/ ResultCalls

\* One tournament of the controller stack, of any number of groups.
SpecAnyGroupCount == Init /\ [][NextAnyGroupCount]_vars

\* ------------------------------------------------------------------------
\* A group on its own: Group.updateMatchResult with wins, losses and draws.

\* Regulation scores a client submits for a match of the group.
GroupResultInputs == { << 1, 0 >>, << 0, 1 >>, << 1, 1 >> }

\* The groups of a tournament of one group, for each shuffle of its teams.
InitGroup ==
    /\ tournament = NoTournament
    /\ stage = "setup"
    /\ groups \in { initializeGroups(1, shuffled) : shuffled \in shuffleArray(<< 1, 2, 3, 4 >>) }
    /\ rounds = << >>
    /\ ret = "none"
    /\ emitted = << >>
    /\ instance = NoInstance
    /\ league = NoLeague

\* Group.updateMatchResult(matchId, homeScore, awayScore) on the first group.
Group_updateMatchResult(matchId, homeScore, awayScore) ==
    LET g == groups[1]
        matchIndex == MatchIndex(g, matchId)
    IN /\ IF matchIndex = -1
          THEN /\ ret' = "false"
               /\ UNCHANGED groups
          ELSE LET matches == [g.matches EXCEPT ![matchIndex + 1] =
                                  Match_updateResult(@, homeScore, awayScore)]
               IN /\ \E st \in recalculateStandings(g.teams, matches) :
                        groups' = [groups EXCEPT ![1] =
                                      [g EXCEPT !.matches = matches, !.standings = st]]
                  /\ ret' = "true"
       /\ emitted' = << >>
       /\ UNCHANGED << tournament, stage, rounds, instance, league >>

NextGroup ==
    \E in \in (GroupMatchIds \union { UnknownMatchId }) \X GroupResultInputs :
       Group_updateMatchResult(in[1], in[2][1], in[2][2])

\* One group whose matches are given results in any order.
SpecGroup == InitGroup /\ [][NextGroup]_vars

\* ------------------------------------------------------------------------
\* Match generation on its own: groups of any number of teams.

\* Teams a group may be given.
GenerateTeams == 1 .. 5

\* The team lists of a group: up to five distinct teams in any order.
TeamLists == UNION { Perms(S) : S \in SUBSET GenerateTeams }

\* new Group({ id, name, teams }): no matches, standings of its teams.
Group_new(teams) ==
    [id |-> 1, name |-> 1, teams |-> teams, matches |-> << >>,
     standings |-> CHOOSE st \in recalculateStandings(teams, << >>) : TRUE]

InitGenerate ==
    /\ tournament = NoTournament
    /\ stage = "setup"
    /\ groups \in { << Group_new(teams) >> : teams \in TeamLists }
    /\ rounds = << >>
    /\ ret = "none"
    /\ emitted = << >>
    /\ instance = NoInstance
    /\ league = NoLeague

\* Group.generateMatches() on the first group.
Group_generateMatches ==
    LET g == groups[1]
    IN /\ IF Len(g.teams) # 4
          THEN UNCHANGED groups
          ELSE groups' = [groups EXCEPT ![1].matches = createGroupMatches(g.teams, g.id)]
       /\ ret' = "group"
       /\ emitted' = << >>
       /\ UNCHANGED << tournament, stage, rounds, instance, league >>

\* The schedule part of Tournament._initializeGroups on the first group:
\* the matches of Helpers.generateMatchSchedule, flattened, and the
\* standings of Helpers.calculateGroupStandings.
ScheduleGroup ==
    LET g == groups[1]
        matches == generateMatchSchedule(g.teams)
    IN /\ \E st \in calculateGroupStandings(g.teams, matches) :
             groups' = [groups EXCEPT ![1] = [g EXCEPT !.matches = matches, !.standings = st]]
       /\ ret' = "schedule"
       /\ emitted' = << >>
       /\ UNCHANGED << tournament, stage, rounds, instance, league >>

NextGenerate == Group_generateMatches \/ ScheduleGroup

\* Groups of up to five teams whose matches are generated.
SpecGenerate == InitGenerate /\ [][NextGenerate]_vars

\* ------------------------------------------------------------------------
\* The knockout bracket on its own: a client hands the qualifiers to
\* KnockoutController.generateKnockoutStage and submits knockout results.

\* Tournaments whose bracket is generated: one group, and two groups.
BracketConfigs ==
    { [groupCount |-> 1, teams |-> << 1, 2, 3, 4 >>],
      [groupCount |-> 2, teams |-> << 1, 2, 3, 4, 5, 6, 7, 8 >>] }

CreateForBracket ==
    /\ ~tournament.exists
    /\ \E config \in BracketConfigs : createTournament(config) /\ ControllerOnly

\* The qualifiedTeams a client passes: the top four of a single group as
\* winners, otherwise the first of each group as winners and the second of
\* each group as runners-up.
TopOfGroups(gs) ==
    IF Len(gs) = 1
    THEN [winners |-> [k \in DOMAIN gs[1].standings |-> gs[1].standings[k].id],
          runnersUp |-> << >>, bestThirds |-> << >>]
    ELSE [winners |-> [i \in DOMAIN gs |-> gs[i].standings[1].id],
          runnersUp |-> [i \in DOMAIN gs |-> gs[i].standings[2].id],
          bestThirds |-> << >>]

\* KnockoutController.generateKnockoutStage(qualifiedTeams, groupCount),
\* called once for the tournament.
GenerateBracket ==
    /\ tournament.exists
    /\ rounds = << >>
    /\ rounds' = KC_generateKnockoutStage(TopOfGroups(groups), tournament.groupCount, rounds)
    /\ ret' = "rounds"
    /\ emitted' = << >>
    /\ UNCHANGED << tournament, stage, groups >>
    /\ ControllerOnly

\* Ids of matches of the two brackets a client names.
BracketMatchIds ==
    { "qf_0", "qf_1", "sf_0", "sf_1", "semifinals_0", "final_0" }

\* Results a client submits for a match of the bracket.
BracketResultInputs == { RegulationOnly(s) : s \in { << 1, 0 >>, << 0, 1 >>, << 1, 1 >> } }

BracketCalls ==
    \E in \in BracketMatchIds \X BracketResultInputs :
       KC_updateMatchResult(in[1], in[2]) /\ ControllerOnly

NextKnockout ==
    CreateForBracket \/ GenerateBracket \/ BracketCalls \/ TournamentNewFirst \/ TournamentUpdate

\* One tournament played in any order: the controller stack with a bracket
\* of real teams, or a Tournament object with the bracket it generates.
SpecKnockout == Init /\ [][NextKnockout]_vars

\* ------------------------------------------------------------------------
\* A tournament of two groups and eight teams.

TwoGroupConfig == [groupCount |-> 2, teams |-> << 1, 2, 3, 4, 5, 6, 7, 8 >>]

\* Ids of the group matches of the two groups, for each shuffle.
TwoGroupMatchIds ==
    UNION { { generateMatchSchedule(SubSeq(p, 4 * i + 1, 4 * i + 4))[k].id :
                k \in 1 .. 6, i \in 0 .. 1 } :
            p \in shuffleArray(TwoGroupConfig.teams) }

CreateTwoGroups ==
    /\ ~tournament.exists
    /\ createTournament(TwoGroupConfig) /\ ControllerOnly

TwoGroupResults ==
    \E in \in TwoGroupMatchIds \X GroupScoreInputs :
       GC_updateMatchResult(in[1], in[2][1], in[2][2]) /\ ControllerOnly

NewTwoGroups ==
    /\ ~instance.exists
    /\ Tournament_new(TwoGroupConfig) /\ TournamentOnly

\* The client of a Tournament object submits the result of each match once.
TwoGroupUpdates ==
    \E in \in TwoGroupMatchIds \X GroupScoreInputs :
       /\ \E m \in GroupMatchesOf(instance.groups) : m.id = in[1] /\ ~m.played
       /\ Tournament_updateMatchResult(in[1], in[2][1], in[2][2]) /\ TournamentOnly

NextTwoGroups == CreateTwoGroups \/ TwoGroupResults \/ NewTwoGroups \/ TwoGroupUpdates

\* The group stage of one tournament of two groups, played in any order.
SpecTwoGroups == Init /\ [][NextTwoGroups]_vars

\* ------------------------------------------------------------------------
\* One knockout match decided in regulation, extra time or on penalties.

\* null counts as 0 in arithmetic.
Num(x) == IF x = Null THEN 0 ELSE x

\* Match.updateExtraTimeResult(homeScore, awayScore)
Match_updateExtraTimeResult(m, h, a) ==
    LET aggHomeScore == Num(m.homeScore) + h
        aggAwayScore == Num(m.awayScore) + a
    IN [m EXCEPT !.extraTime = [played |-> TRUE, homeScore |-> h, awayScore |-> a],
                 !.winner = IF aggHomeScore > aggAwayScore THEN m.homeTeam
                            ELSE IF aggHomeScore < aggAwayScore THEN m.awayTeam
                            ELSE Null]

\* Match.updatePenaltyResult without the assignments to penalties.winner.
Match_updatePenaltyResult_MatchWinnerOnly(m, h, a) ==
    LET pens == [m.penalties EXCEPT !.played = TRUE, !.homeScore = h, !.awayScore = a]
    IN [m EXCEPT !.penalties = pens,
                 !.winner = IF h > a THEN m.homeTeam ELSE IF h < a THEN m.awayTeam ELSE @]

\* Match.updatePenaltyResult(homeScore, awayScore)
Match_updatePenaltyResult(m, h, a) ==
    LET pens == [m.penalties EXCEPT !.played = TRUE, !.homeScore = h, !.awayScore = a]
    IN IF h > a
       THEN [m EXCEPT !.penalties = [pens EXCEPT !.winner = m.homeTeam], !.winner = m.homeTeam]
       ELSE IF h < a
       THEN [m EXCEPT !.penalties = [pens EXCEPT !.winner = m.awayTeam], !.winner = m.awayTeam]
       ELSE [m EXCEPT !.penalties = pens]

\* Scores a client submits for regulation, extra time and the shootout.
RegulationInputs == { << 0, 0 >>, << 1, 0 >>, << 0, 1 >>, << 1, 1 >>, << 2, 1 >>, << 1, 2 >> }

ExtraTimeInputs == { << 0, 0 >>, << 1, 0 >>, << 0, 1 >>, << 1, 1 >> }

PenaltyInputs == { << 5, 4 >>, << 4, 5 >> }

\* Results a client submits to KnockoutController.updateMatchResult.
DeciderInputs ==
    { [reg |-> r, et |-> e, pens |-> p] :
        r \in RegulationInputs,
        e \in ExtraTimeInputs \union { NoScores },
        p \in PenaltyInputs \union { NoScores } }

\* The match decided: the first semifinal of a one-group bracket.
DeciderMatchId == "sf_0"

DeciderCalls ==
    \E in \in DeciderInputs : KC_updateMatchResult(DeciderMatchId, in) /\ ControllerOnly

\* The rounds with match matchId replaced by its image under change.
WithMatch(rs, matchId, changed) ==
    LET roundIndex == RoundIndex(rs, matchId)
        matchIndex == MatchIndex(rs[roundIndex + 1], matchId)
    IN [rs EXCEPT ![roundIndex + 1].matches[matchIndex + 1] = changed]

TheMatch(rs, matchId) ==
    LET roundIndex == RoundIndex(rs, matchId)
    IN rs[roundIndex + 1].matches[MatchIndex(rs[roundIndex + 1], matchId) + 1]

\* getMatchById(matchId).updateExtraTimeResult(homeScore, awayScore)
MatchExtraTime(matchId, h, a) ==
    /\ RoundIndex(rounds, matchId) # -1
    /\ rounds' = WithMatch(rounds, matchId, Match_updateExtraTimeResult(TheMatch(rounds, matchId), h, a))
    /\ ret' = "match"
    /\ emitted' = << >>
    /\ UNCHANGED << tournament, stage, groups >>
    /\ ControllerOnly

\* getMatchById(matchId).updatePenaltyResult(homeScore, awayScore)
MatchPenalties(matchId, h, a) ==
    /\ RoundIndex(rounds, matchId) # -1
    /\ rounds' = WithMatch(rounds, matchId, Match_updatePenaltyResult(TheMatch(rounds, matchId), h, a))
    /\ ret' = "match"
    /\ emitted' = << >>
    /\ UNCHANGED << tournament, stage, groups >>
    /\ ControllerOnly

MatchCalls ==
    \/ \E s \in ExtraTimeInputs : MatchExtraTime(DeciderMatchId, s[1], s[2])
    \/ \E s \in PenaltyInputs : MatchPenalties(DeciderMatchId, s[1], s[2])

NextDecider == CreateForBracket \/ GenerateBracket \/ DeciderCalls \/ MatchCalls

\* A semifinal between two real teams given results of every kind.
SpecDecider == Init /\ [][NextDecider]_vars

\* ------------------------------------------------------------------------
\* Bracket generation on its own, for every supported number of groups.

\* The groups of a new tournament of each supported groupCount.
NewGroups ==
    UNION { { initializeGroups(g, shuffled) : shuffled \in shuffleArray([i \in 1 .. 4 * g |-> i]) } :
            g \in SupportedGroupCounts }

\* The state after createTournament, or after new Tournament, for each.
InitBracket ==
    /\ groups \in NewGroups \union { << >> }
    /\ tournament = IF groups = << >> THEN NoTournament
                    ELSE [exists |-> TRUE, status |-> "active", groupCount |-> Len(groups)]
    /\ stage = IF groups = << >> THEN "setup" ELSE "group"
    /\ rounds = << >>
    /\ ret = "none"
    /\ emitted = << >>
    /\ instance \in IF groups # << >> THEN { NoInstance }
                    ELSE { [exists |-> TRUE, groupCount |-> Len(gs), currentStage |-> "group",
                            status |-> "active", groups |-> gs, knockout |-> << >>,
                            events |-> << >>] : gs \in NewGroups }
    /\ league = NoLeague

\* The qualifiedTeams a client may pass to generateKnockoutStage: each list
\* empty or filled by position (first, second and third of every group),
\* or the top four of a single group as winners.
QualifierInputs(gs) ==
    { [winners |-> w, runnersUp |-> r, bestThirds |-> t] :
        w \in { << >>, [i \in DOMAIN gs |-> gs[i].standings[1].id] },
        r \in { << >>, [i \in DOMAIN gs |-> gs[i].standings[2].id] },
        t \in { << >>, [i \in DOMAIN gs |-> gs[i].standings[3].id] } }
       \union { TopOfGroups(gs) }

\* KnockoutController.generateKnockoutStage(qualifiedTeams, groupCount)
KC_GenerateKnockoutStage ==
    /\ tournament.exists
    /\ \E q \in QualifierInputs(groups) :
          rounds' = KC_generateKnockoutStage(q, tournament.groupCount, rounds)
    /\ ret' = "rounds"
    /\ emitted' = << >>
    /\ UNCHANGED << tournament, stage, groups, instance, league >>

\* this.knockout = Helpers.generateKnockoutStage(qualifiedTeams, groupCount)
Helpers_GenerateKnockoutStage ==
    /\ instance.exists
    /\ \E q \in determineQualifiedTeams(instance.groups) :
          instance' = [instance EXCEPT !.knockout = Helpers_generateKnockoutStage(q, instance.groupCount)]
    /\ ret' = "rounds"
    /\ emitted' = << >>
    /\ UNCHANGED << controllerVars, league >>

NextBracket == KC_GenerateKnockoutStage \/ Helpers_GenerateKnockoutStage

\* Brackets generated for tournaments of 1, 2, 3, 4, 6 and 8 groups.
SpecBracket == InitBracket /\ [][NextBracket]_vars

\* ------------------------------------------------------------------------
\* Qualification marks on the standings of a tournament of three groups.

\* Group.markQualifiedTeams(directQualifyCount, includeBestThird): the group
\* with each table recalculateStandings may leave, flagged by position.
Group_markQualifiedTeams(g, directQualifyCount, includeBestThird) ==
    { [g EXCEPT !.standings =
          [i \in DOMAIN st |->
              [st[i] EXCEPT !.qualified = (i - 1 < directQualifyCount),
                            !.bestThird = (includeBestThird /\ i - 1 = 2)]]] :
      st \in recalculateStandings(g.teams, g.matches) }

\* The comparator of calculateBestThirdPlaceTeams: points, goal difference,
\* goals scored, then name.
compareThirdPlaceTeams(a, b) ==
    LET stats == compareStats(a, b)
    IN IF stats # 0 THEN stats ELSE localeCompare(a.id, b.id)

\* GroupController.calculateBestThirdPlaceTeams(count): the groups it may
\* leave, the first count of the sorted third rows flagged.
calculateBestThirdPlaceTeams(gs, count) ==
    LET having == SelectSeq(gs, LAMBDA g : Len(g.standings) >= 3)
        thirdPlaceTeams == [k \in DOMAIN having |-> having[k].standings[3]]
        take(sorted) == IF Len(sorted) < count THEN Len(sorted) ELSE count
        best(sorted) == { sorted[k].id : k \in 1 .. take(sorted) }
        flag(sorted) ==
            [i \in DOMAIN gs |->
                [gs[i] EXCEPT !.standings =
                    [j \in DOMAIN gs[i].standings |->
                        IF gs[i].standings[j].id \in best(sorted)
                        THEN [gs[i].standings[j] EXCEPT !.qualified = TRUE, !.bestThird = TRUE]
                        ELSE gs[i].standings[j]]]]
    IN IF thirdPlaceTeams = << >> THEN { gs }
       ELSE { flag(sorted) : sorted \in SortOutcomes(thirdPlaceTeams, compareThirdPlaceTeams) }

\* GroupController.markQualifiedTeams(format): every group marked, then the
\* best third-placed teams with the default count of 4.
markQualifiedTeams(gs, format) ==
    LET each == [i \in DOMAIN gs |-> Group_markQualifiedTeams(gs[i], format.direct, format.bestThird)]
        marked == { m \in [DOMAIN gs -> UNION { each[i] : i \in DOMAIN gs }] :
                      \A i \in DOMAIN gs : m[i] \in each[i] }
    IN IF format.bestThird
       THEN UNION { calculateBestThirdPlaceTeams(m, 4) : m \in marked }
       ELSE marked

ThreeGroupConfig == [groupCount |-> 3, teams |-> [i \in 1 .. 12 |-> i]]

\* The second match of the first matchday of each of the three groups.
ThreeGroupMatchIds ==
    UNION { { generateMatchSchedule(SubSeq(p, 4 * i + 1, 4 * i + 4))[2].id : i \in 0 .. 2 } :
            p \in shuffleArray(ThreeGroupConfig.teams) }

ThreeGroupScores == { << 2, 1 >>, << 0, 1 >>, << 1, 1 >> }

\* Formats a client may pass to markQualifiedTeams.
QualificationFormats == { [direct |-> 2, bestThird |-> b] : b \in BOOLEAN }

\* Counts a client may pass to calculateBestThirdPlaceTeams (4 by default).
BestThirdCounts == { 2, 4 }

CreateThreeGroups ==
    /\ ~tournament.exists
    /\ createTournament(ThreeGroupConfig) /\ ControllerOnly

ThreeGroupResults ==
    \E in \in ThreeGroupMatchIds \X ThreeGroupScores :
       GC_updateMatchResult(in[1], in[2][1], in[2][2]) /\ ControllerOnly

MarkQualifiedTeams ==
    /\ tournament.exists
    /\ \E format \in QualificationFormats : groups' \in markQualifiedTeams(groups, format)
    /\ ret' = "undefined"
    /\ emitted' = << >>
    /\ UNCHANGED << tournament, stage, rounds, instance, league >>

CalculateBestThirdPlaceTeams ==
    /\ tournament.exists
    /\ \E count \in BestThirdCounts : groups' \in calculateBestThirdPlaceTeams(groups, count)
    /\ ret' = "undefined"
    /\ emitted' = << >>
    /\ UNCHANGED << tournament, stage, rounds, instance, league >>

NewThreeGroups ==
    /\ ~instance.exists
    /\ Tournament_new(ThreeGroupConfig) /\ TournamentOnly

\* The client of a Tournament object submits the result of each match once.
ThreeGroupUpdates ==
    \E in \in ThreeGroupMatchIds \X ThreeGroupScores :
       /\ \E m \in GroupMatchesOf(instance.groups) : m.id = in[1] /\ ~m.played
       /\ Tournament_updateMatchResult(in[1], in[2][1], in[2][2]) /\ TournamentOnly

NextQualification ==
    \/ CreateThreeGroups \/ ThreeGroupResults
    \/ MarkQualifiedTeams \/ CalculateBestThirdPlaceTeams
    \/ NewThreeGroups \/ ThreeGroupUpdates

\* Three groups with some results in, and the qualifiers marked at any time.
SpecQualification == Init /\ [][NextQualification]_vars

\* ------------------------------------------------------------------------
\* The standings of one group of four, kept by a Group object and by a
\* Tournament object.

\* A Group object after construction, or nothing constructed yet.
InitStandings == InitGroup \/ Init

GroupResults == groups # << >> /\ NextGroup

StandingsNew ==
    /\ groups = << >>
    /\ ~instance.exists
    /\ Tournament_new([groupCount |-> 1, teams |-> << 1, 2, 3, 4 >>]) /\ TournamentOnly

\* The client of a Tournament object submits the result of each match once.
StandingsUpdates ==
    \E in \in GroupMatchIds \X GroupResultInputs :
       /\ \E m \in GroupMatchesOf(instance.groups) : m.id = in[1] /\ ~m.played
       /\ Tournament_updateMatchResult(in[1], in[2][1], in[2][2]) /\ TournamentOnly

NextStandings == GroupResults \/ StandingsNew \/ StandingsUpdates

SpecStandings == InitStandings /\ [][NextStandings]_vars

\* ------------------------------------------------------------------------
\* LeagueManager (src/main.js): a league of players who meet home and away,
\* with a table kept up to date result by result.  generateId() gives
\* every player and every fixture an id of its own: players are numbered in
\* input order, fixtures in list order.

\* The id of the player added to an odd number of players.
Bye == 0

\* A player of a new league.
LeaguePlayer(id) ==
    [id |-> id, played |-> 0, won |-> 0, drawn |-> 0, lost |-> 0,
     goalsFor |-> 0, goalsAgainst |-> 0, goalDifference |-> 0, points |-> 0]

\* generateFixtures(): the first leg by the round-robin loops, fixtures with
\* the bye player skipped, then the second leg with home and away exchanged.
generateFixtures(players) ==
    IF Len(players) < 2 THEN << >>
    ELSE LET ids == [i \in DOMAIN players |-> players[i].id]
             allPlayers == IF Len(ids) % 2 # 0 THEN Append(ids, Bye) ELSE ids
             n == Len(allPlayers)
             half == n \div 2
             pairing(k) ==
                 LET round == k \div half
                     match == k % half
                     home == (round + match) % (n - 1)
                     away == (n - 1 - match + round) % (n - 1)
                 IN [matchday |-> round + 1,
                     homeTeamId |-> allPlayers[home + 1],
                     awayTeamId |-> IF match = 0 THEN allPlayers[n] ELSE allPlayers[away + 1]]
             pairings == [k \in 1 .. ((n - 1) * half) |-> pairing(k - 1)]
             firstHalf == SelectSeq(pairings, LAMBDA f : f.homeTeamId # Bye /\ f.awayTeamId # Bye)
             fixture(k) ==
                 IF k <= Len(firstHalf)
                 THEN [id |-> k, matchday |-> firstHalf[k].matchday,
                       homeTeamId |-> firstHalf[k].homeTeamId,
                       awayTeamId |-> firstHalf[k].awayTeamId,
                       homeScore |-> Null, awayScore |-> Null, played |-> FALSE, leg |-> 1]
                 ELSE LET first == firstHalf[k - Len(firstHalf)]
                      IN [id |-> k, matchday |-> first.matchday + (n - 1),
                          homeTeamId |-> first.awayTeamId,
                          awayTeamId |-> first.homeTeamId,
                          homeScore |-> Null, awayScore |-> Null, played |-> FALSE, leg |-> 2]
         IN [k \in 1 .. (2 * Len(firstHalf)) |-> fixture(k)]

\* createLeague(name, players)
createLeague(count) ==
    LET players == [i \in 1 .. count |-> LeaguePlayer(i)]
        fixtures == generateFixtures(players)
    IN [exists |-> TRUE, players |-> players, fixtures |-> fixtures,
        stats |-> [totalGoals |-> 0, matchesPlayed |-> 0,
                   totalMatches |-> Len(fixtures), averageGoals |-> 0]]

\* The row of a player with one result of goalsFor-goalsAgainst counted
\* (sign 1) or taken back (sign -1); goalDifference is set from the goals.
WithResult(player, goalsFor, goalsAgainst, sign) ==
    LET gf == player.goalsFor + sign * goalsFor
        ga == player.goalsAgainst + sign * goalsAgainst
    IN [player EXCEPT
          !.played = @ + sign,
          !.goalsFor = gf,
          !.goalsAgainst = ga,
          !.goalDifference = gf - ga,
          !.won = IF goalsFor > goalsAgainst THEN @ + sign ELSE @,
          !.lost = IF goalsFor < goalsAgainst THEN @ + sign ELSE @,
          !.drawn = IF goalsFor = goalsAgainst THEN @ + sign ELSE @,
          !.points = IF goalsFor > goalsAgainst THEN @ + 3 * sign
                     ELSE IF goalsFor = goalsAgainst THEN @ + sign ELSE @]

\* The players after the result of the fixture is counted, the previous
\* result first taken back when rollback is set.
CountResult(players, fixture, rollback, prevHomeScore, prevAwayScore) ==
    LET isHome(p) == p.id = fixture.homeTeamId
        isAway(p) == p.id = fixture.awayTeamId
        home == FindIndex(players, isHome) + 1
        away == FindIndex(players, isAway) + 1
        back(p, gf, ga) == IF rollback THEN WithResult(p, gf, ga, -1) ELSE p
        asHome(p) == WithResult(back(p, prevHomeScore, prevAwayScore),
                                fixture.homeScore, fixture.awayScore, 1)
        asAway(p) == WithResult(back(p, prevAwayScore, prevHomeScore),
                                fixture.awayScore, fixture.homeScore, 1)
    IN IF home = 0 \/ away = 0 THEN players
       ELSE [i \in DOMAIN players |->
                IF i = home /\ i = away THEN asAway(asHome(players[i]))
                ELSE IF i = home THEN asHome(players[i])
                ELSE IF i = away THEN asAway(players[i])
                ELSE players[i]]

\* updateStandingsForMatch that never takes the previous result back.
updateStandingsForMatch_NoRollback(players, fixture, isUpdate, prevHomeScore, prevAwayScore) ==
    CountResult(players, fixture, FALSE, prevHomeScore, prevAwayScore)

\* updateStandingsForMatch(fixture, isUpdate, prevHomeScore, prevAwayScore)
updateStandingsForMatch(players, fixture, isUpdate, prevHomeScore, prevAwayScore) ==
    CountResult(players, fixture,
                isUpdate /\ prevHomeScore # Null /\ prevAwayScore # Null,
                prevHomeScore, prevAwayScore)

\* updateLeagueStats(): averageGoals, toFixed(2), in hundredths.
updateLeagueStats(stats, fixtures) ==
    LET played == SelectSeq(fixtures, LAMBDA f : f.played)
        matchesPlayed == Len(played)
        totalGoals == SumSeq([k \in DOMAIN played |-> played[k].homeScore + played[k].awayScore])
    IN [stats EXCEPT
          !.matchesPlayed = matchesPlayed,
          !.totalGoals = totalGoals,
          !.averageGoals = IF matchesPlayed > 0
                           THEN (200 * totalGoals + matchesPlayed) \div (2 * matchesPlayed)
                           ELSE @]

\* What the two score inputs of the result modal may hold.
ScoreTexts == { "", "-1", "0", "2" }

\* parseInt(value, 10) of the texts that hold a number.
parseInt(text) ==
    CASE text = "-1" -> -1
      [] text = "0" -> 0
      [] text = "2" -> 2

\* isNaN(parseInt(value, 10))
isNaN(text) == text \notin { "-1", "0", "2" }

\* Numbers of players a league is set up with.
LeagueSizes == { 2, 3 }

\* What saveResultBtn.dataset.fixtureId may hold: nothing (0), the id of a
\* fixture, or an id no fixture of the current league has (7).
FixtureIdInputs == 0 .. 7

\* handleLeagueSetup: createLeague(name, players) and the notification
CreateLeague ==
    /\ \E count \in LeagueSizes : league' = createLeague(count)
    /\ ret' = "undefined"
    /\ emitted' = << "success" >>
    /\ UNCHANGED << controllerVars, instance >>

\* saveMatchResult()
saveMatchResult(fixtureId, homeText, awayText) ==
    LET isFixture(f) == f.id = fixtureId
        found == FindIndex(league.fixtures, isFixture) + 1
    IN /\ IF fixtureId = 0 \/ ~league.exists
          THEN /\ emitted' = << >>
               /\ UNCHANGED league
          ELSE IF \/ isNaN(homeText) \/ isNaN(awayText)
                  \/ parseInt(homeText) < 0 \/ parseInt(awayText) < 0
          THEN /\ emitted' = << "error" >>
               /\ UNCHANGED league
          ELSE IF found = 0
          THEN /\ emitted' = << >>
               /\ UNCHANGED league
          ELSE LET before == league.fixtures[found]
                   fixture == [before EXCEPT !.homeScore = parseInt(homeText),
                                             !.awayScore = parseInt(awayText),
                                             !.played = TRUE]
                   fixtures == [league.fixtures EXCEPT ![found] = fixture]
               IN /\ league' = [league EXCEPT
                                  !.fixtures = fixtures,
                                  !.players = updateStandingsForMatch(@, fixture, before.played,
                                                 before.homeScore, before.awayScore),
                                  !.stats = updateLeagueStats(@, fixtures)]
                  /\ emitted' = << "success" >>
       /\ ret' = "undefined"
       /\ UNCHANGED << controllerVars, instance >>

SaveMatchResult ==
    \E fixtureId \in FixtureIdInputs, homeText \in ScoreTexts, awayText \in ScoreTexts :
       saveMatchResult(fixtureId, homeText, awayText)

NextLeague == CreateLeague \/ SaveMatchResult

\* Leagues of two and of three players, results entered and edited in any
\* order.
SpecLeague == Init /\ [][NextLeague]_vars

\* ------------------------------------------------------------------------
\* Properties.

FinalOf(rs) == rs[Len(rs)].matches[1]

StageRank(s) ==
    CASE s = "setup" -> 0
      [] s = "group" -> 1
      [] s = "knockout" -> 2
      [] s = "complete" -> 3

\* The step is an updateMatchResult call that was accepted (every accepted
\* update notifies matchUpdated first, nothing else does).
UpdateAccepted == emitted' # << >> /\ Head(emitted') = "matchUpdated"

\* The step is a resetTournament call that returned true.
ResetDone == emitted' = << "tournamentReset" >>

\* The step only reported failure.
Refused ==
    /\ ret' = "false"
    /\ emitted' = << >>
    /\ UNCHANGED << tournament, stage, groups, rounds, instance >>

\* C1: after any sequence of knockout result updates every knockout match
\* with played = true has a non-null winner (a submission that would leave
\* a played knockout match undecided is not accepted).
C1_PlayedKnockoutMatchHasWinner ==
    /\ \A m \in KnockoutMatchesOf(rounds) : m.played => m.winner # Null
    /\ \A m \in KnockoutMatchesOf(instance.knockout) : m.played => m.winner # Null

\* C2: over the life of one tournament the stage never moves to an earlier
\* stage of setup < group < knockout < complete, except by resetTournament,
\* which sets it to group.
C2_StageNeverMovesBack ==
    [][ /\ StageRank(stage') < StageRank(stage) => ResetDone /\ stage' = "group"
        /\ instance.exists =>
              StageRank(instance'.currentStage) >= StageRank(instance.currentStage) ]_vars

\* A reset has just taken a tournament that had reached the knockout stage
\* back to the group stage.
C2_ResetMovedBack ==
    /\ stage = "group"
    /\ emitted = << "tournamentReset" >>
    /\ rounds # << >>

\* C3: every stage change made by updateMatchResult or resetTournament is
\* setup->group, group->knockout, knockout->complete or, by reset, any
\* stage->group; in particular never group->complete.
C3_StageChangesFollowTheChain ==
    [][ (UpdateAccepted \/ ResetDone) /\ stage' # stage =>
           \/ << stage, stage' >> \in { << "setup", "group" >>, << "group", "knockout" >>,
                                        << "knockout", "complete" >> }
           \/ ResetDone /\ stage' = "group" ]_vars

\* C4: an accepted result of a group match in stage group that leaves
\* every match of every group played leaves stage = knockout with the
\* knockout rounds generated; while a group match is unplayed such an update
\* leaves the stage at group.
C4_GroupStageEndsInKnockout ==
    [][ /\ (/\ UpdateAccepted /\ stage = "group"
            /\ \E in \in GroupInputs : GC_updateMatchResult(in[1], in[2][1], in[2][2]))
           => IF \A m \in GroupMatchesOf(groups') : m.played
              THEN stage' = "knockout" /\ rounds' # << >>
              ELSE stage' = "group"
        /\ (/\ instance.exists /\ instance.currentStage = "group"
            /\ ret' = "true" /\ instance' # instance)
           => IF \A m \in GroupMatchesOf(instance'.groups) : m.played
              THEN instance'.currentStage = "knockout" /\ instance'.knockout # << >>
              ELSE instance'.currentStage = "group" ]_vars

\* The last group result has just moved a tournament to its knockout stage.
C4_LastGroupResultIn ==
    /\ emitted = << "matchUpdated", "stageChanged", "groupStageCompleted" >>
    /\ stage = "knockout" /\ rounds # << >>
    /\ \A m \in GroupMatchesOf(groups) : m.played

\* C5: when an update has completed the tournament (status completed,
\* stage complete) the final is played with a non-null winner and
\* getTournamentWinner returns that team; before completion it returns null.
C5_CompletedHasChampion ==
    /\ emitted = << "matchUpdated", "stageChanged", "tournamentCompleted" >> =>
          /\ stage = "complete" /\ tournament.status = "completed"
          /\ FinalOf(rounds).played
          /\ FinalOf(rounds).winner # Null
          /\ getTournamentWinner(rounds) = FinalOf(rounds).winner
    /\ stage # "complete" /\ tournament.status # "completed" =>
          getTournamentWinner(rounds) = Null

\* C6: in every reachable state status = completed if and only if
\* stage = complete.
C6_CompletedIffComplete ==
    /\ tournament.exists => (tournament.status = "completed" <=> stage = "complete")
    /\ instance.exists => (instance.status = "completed" <=> instance.currentStage = "complete")

\* C7: an update is accepted for a group match only while stage = group and
\* for a knockout match only while stage = knockout (a result for a match
\* of an inactive stage returns failure and changes nothing).
C7_OnlyActiveStageAccepted ==
    [][ UpdateAccepted =>
           \A matchId \in MatchIdInputs :
              /\ (\E s \in GroupScoreInputs : GC_updateMatchResult(matchId, s[1], s[2]))
                    => stage = "group"
              /\ (\E in \in KnockoutInputs :
                     KC_updateMatchResult(matchId, in) \/ MC_updateMatchResult(matchId, in))
                    => stage = "knockout" ]_vars

\* C8: in the group stage of a tournament made by createTournament,
\* updateMatchResult(matchId, h, a) for an existing group match returns
\* success, the match is then played with scores (h, a) and the standings
\* of its group are those of its results.
C8_GroupResultAccepted ==
    [][ \A in \in MatchInputs :
           (/\ stage = "group"
            /\ GroupIndex(groups, in[1]) # -1
            /\ MC_updateMatchResult(in[1], in[2]))
           => /\ ret' = "true"
              /\ \E m \in GroupMatchesOf(groups') :
                    /\ m.id = in[1] /\ m.played
                    /\ m.homeScore = in[2].reg[1] /\ m.awayScore = in[2].reg[2]
              /\ \A i \in DOMAIN groups' :
                    groups'[i].standings \in recalculateStandings(groups'[i].teams, groups'[i].matches) ]_vars

UnknownToControllers(matchId) ==
    GroupIndex(groups, matchId) = -1 /\ RoundIndex(rounds, matchId) = -1

UnknownToTournament(matchId) ==
    GroupIndex(instance.groups, matchId) = -1 /\ RoundIndex(instance.knockout, matchId) = -1

\* C9: updateMatchResult with a match id that is in no group and no
\* knockout round returns false, leaves matches, standings, rounds, stage,
\* status and the event log unchanged and emits no notification.
C9_UnknownMatchIdRefused ==
    [][ \/ Refused
        \/ \A matchId \in MatchIdInputs \union HelperKnockoutIds :
              /\ ~(/\ UnknownToControllers(matchId)
                   /\ \/ \E in \in KnockoutInputs :
                            MC_updateMatchResult(matchId, in) \/ KC_updateMatchResult(matchId, in)
                      \/ \E s \in GroupScoreInputs : GC_updateMatchResult(matchId, s[1], s[2]))
              /\ ~(/\ instance.exists
                   /\ UnknownToTournament(matchId)
                   /\ \E s \in GroupScoreInputs \union KnockoutScoreInputs :
                         Tournament_updateMatchResult(matchId, s[1], s[2])) ]_vars

\* A call has just been refused on a tournament that is in its knockout
\* stage with results recorded.
C9_RefusedOnLiveTournament ==
    /\ ret = "false" /\ emitted = << >>
    /\ stage = "knockout" /\ rounds # << >>
    /\ \E m \in GroupMatchesOf(groups) : m.played

\* C10: a knockout result with level penalty scores is refused and the
\* match keeps its played flag, scores, extra-time record, penalty record
\* and winner.
C10_LevelPenaltiesRefused ==
    [][ \A in \in KnockoutCallInputs :
           (/\ in[2].pens # NoScores
            /\ in[2].pens[1] = in[2].pens[2]
            /\ RoundIndex(rounds, in[1]) # -1
            /\ KC_updateMatchResult(in[1], in[2]) \/ MC_updateMatchResult(in[1], in[2]))
           => ret' = "false" /\ rounds' = rounds ]_vars

HasNegative(in) ==
    \/ in.reg[1] < 0 \/ in.reg[2] < 0
    \/ in.et # NoScores /\ (in.et[1] < 0 \/ in.et[2] < 0)
    \/ in.pens # NoScores /\ (in.pens[1] < 0 \/ in.pens[2] < 0)

\* C11: a result with a negative regulation, extra-time or penalty score is
\* refused before any mutation: the call reports failure and the match, the
\* standings of its group and the bracket are unchanged.
C11_NegativeScoresRefused ==
    [][ /\ \A in \in GroupMatchIds \X AnyGroupScoreInputs :
              (/\ in[2][1] < 0 \/ in[2][2] < 0
               /\ GC_updateMatchResult(in[1], in[2][1], in[2][2]))
              => Refused
        /\ \A in \in KnockoutMatchIds \X AnyKnockoutInputs :
              (HasNegative(in[2]) /\ KC_updateMatchResult(in[1], in[2]))
              => Refused ]_vars

\* The step is a createTournament call that returned a tournament.
Created == emitted' = << "tournamentCreated" >>

\* C12: createTournament succeeds only when the number of team names is
\* groupCount x 4; with fewer or more names it returns no tournament and
\* leaves the current tournament and stage unchanged.
C12_TeamCountMustMatch ==
    [][ \A config \in CreateConfigsAny :
           (/\ Len(config.teams) # config.groupCount * 4
            /\ createTournament(config))
           => /\ ret' = "null"
              /\ UNCHANGED << tournament, stage, groups, rounds >> ]_vars

\* C13: createTournament with a groupCount outside {1, 2, 3, 4, 6, 8} is
\* refused and creates no tournament, so no tournament with an unsupported
\* groupCount reaches the knockout stage.
C13_UnsupportedGroupCountRefused ==
    [][ /\ \A config \in GroupCountConfigs :
              (/\ config.groupCount \notin SupportedGroupCounts
               /\ createTournament(config))
              => /\ ret' = "null"
                 /\ UNCHANGED << tournament, stage, groups, rounds >>
        /\ (tournament'.exists /\ stage' \in { "knockout", "complete" })
              => tournament'.groupCount \in SupportedGroupCounts ]_vars

ZeroRow(r) ==
    /\ r.played = 0 /\ r.won = 0 /\ r.drawn = 0 /\ r.lost = 0
    /\ r.goalsFor = 0 /\ r.goalsAgainst = 0 /\ r.goalDifference = 0 /\ r.points = 0

Unplayed(m) ==
    ~m.played /\ m.homeScore = Null /\ m.awayScore = Null /\ m.winner = Null

\* C14: immediately after a successful createTournament with groupCount x 4
\* distinct names, whatever preceded it: stage = group, status = active,
\* every name is in exactly one group, each group has 4 teams, 6 unplayed
\* matches and all-zero standings, and there are no knockout rounds.
C14_FreshAfterCreate ==
    [][ Created =>
           \A config \in CreateConfigsAny :
              (/\ Len(config.teams) = config.groupCount * 4
               /\ createTournament(config))
              => /\ stage' = "group"
                 /\ tournament'.status = "active"
                 /\ Len(groups') = config.groupCount
                 /\ \A t \in Range(config.teams) :
                       Cardinality({ i \in DOMAIN groups' : t \in Range(groups'[i].teams) }) = 1
                 /\ \A i \in DOMAIN groups' :
                       /\ Len(groups'[i].teams) = 4
                       /\ Len(groups'[i].matches) = 6
                       /\ \A m \in Range(groups'[i].matches) : Unplayed(m)
                       /\ Len(groups'[i].standings) = 4
                       /\ \A r \in Range(groups'[i].standings) : ZeroRow(r)
                 /\ rounds' = << >> ]_vars

\* C15: after resetTournament, from any stage, every group match is
\* unplayed with no scores and no winner, every standings row is all zero,
\* stage = group and status = active.
C15_ResetClearsGroupStage ==
    emitted = << "tournamentReset" >> =>
       /\ \A m \in GroupMatchesOf(groups) : Unplayed(m)
       /\ \A i \in DOMAIN groups : \A r \in Range(groups[i].standings) : ZeroRow(r)
       /\ stage = "group"
       /\ tournament.status = "active"

\* A tournament that had completed its group stage has just been reset.
C15_ResetAfterResults ==
    /\ emitted = << "tournamentReset" >> /\ ret = "true"
    /\ Len(rounds) > 0
    /\ Len(groups) > 0

\* C16: resetTournament discards the knockout rounds: after it returns the
\* tournament holds no knockout rounds.
C16_ResetDiscardsRounds ==
    emitted = << "tournamentReset" >> => rounds = << >>

\* The pairs of row ids a comparator puts in that order.
OrderedPairs(S, cmp(_, _)) ==
    UNION { { << a.id, b.id >> : b \in { q \in S : cmp(a, q) < 0 } } : a \in S }

\* C17: for any set of played group results the standings comparator is a
\* strict total order on the rows of a group (never 0 for two distinct
\* rows, antisymmetric, transitive), so the table has one possible order.
C17_ComparatorIsStrictTotalOrder ==
    \A i \in DOMAIN groups :
       LET g == groups[i]
           S == Range(AccumulateRows(g.teams, g.matches))
           groupCmp(a, b) == Group_compare(g.matches, a, b)
           helpersCmp(a, b) == Helpers_compare(g.matches, a, b)
       IN /\ \A a, b \in S : a # b => groupCmp(a, b) # 0 /\ helpersCmp(a, b) # 0
          /\ Consistent(S, OrderedPairs(S, groupCmp))
          /\ Consistent(S, OrderedPairs(S, helpersCmp))
          /\ Cardinality(recalculateStandings(g.teams, g.matches)) = 1

Level(r, s) ==
    /\ r.points = s.points
    /\ r.goalDifference = s.goalDifference
    /\ r.goalsFor = s.goalsFor

InTableOrder(r, s) ==
    \/ r.points > s.points
    \/ r.points = s.points /\ r.goalDifference > s.goalDifference
    \/ r.points = s.points /\ r.goalDifference = s.goalDifference /\ r.goalsFor > s.goalsFor
    \/ Level(r, s)

AllDrawnOneAll(g) ==
    \A m \in Range(g.matches) : m.played /\ m.homeScore = 1 /\ m.awayScore = 1

\* C18: in any computed group table, for adjacent rows r above s: r has more
\* points, or equal points and greater goal difference, or both equal and
\* more goals for; rows level on all three with no decisive head-to-head are
\* in ascending name order (six 1-1 draws rank the teams 1, 2, 3, 4).
C18_TableOrder ==
    \A i \in DOMAIN groups :
       LET g == groups[i]
           st == g.standings
       IN /\ \A k \in 1 .. (Len(st) - 1) :
                /\ InTableOrder(st[k], st[k + 1])
                /\ (Level(st[k], st[k + 1])
                      /\ getHeadToHeadResult(g.matches, st[k].id, st[k + 1].id) = 0)
                   => st[k].id < st[k + 1].id
          /\ AllDrawnOneAll(g) => [k \in DOMAIN st |-> st[k].id] = << 1, 2, 3, 4 >>

\* All six matches of the group have been drawn 1-1.
C18_AllSixDrawn ==
    /\ Len(groups) = 1
    /\ AllDrawnOneAll(groups[1])
    /\ ret = "true"

PositionOf(st, t) == CHOOSE k \in DOMAIN st : st[k].id = t

\* C19: when two teams of a group are level on points, goal difference and
\* goals for and the match between them has a decisive result, the winner
\* of that match is ranked above the loser in the standings.
C19_HeadToHeadWinnerAbove ==
    \A i \in DOMAIN groups :
       LET g == groups[i]
           st == g.standings
       IN \A m \in Range(g.matches) :
             (/\ m.played /\ m.homeScore # m.awayScore
              /\ Level(st[PositionOf(st, m.homeTeam)], st[PositionOf(st, m.awayTeam)]))
             => LET winner == IF m.homeScore > m.awayScore THEN m.homeTeam ELSE m.awayTeam
                    loser == IF m.homeScore > m.awayScore THEN m.awayTeam ELSE m.homeTeam
                IN PositionOf(st, winner) < PositionOf(st, loser)

\* C20: whenever control is back with a caller or a listener has been
\* notified, the stored standings of each group are the from-scratch
\* standings of its current match results (so recalculating again with no
\* match change gives the same table).
C20_StandingsMatchResults ==
    /\ \A i \in DOMAIN groups :
          groups[i].standings \in recalculateStandings(groups[i].teams, groups[i].matches)
    /\ \A i \in DOMAIN instance.groups :
          instance.groups[i].standings
             \in calculateGroupStandings(instance.groups[i].teams, instance.groups[i].matches)

\* A group result has just been recorded and its winner has three points.
C20_ResultCounted ==
    /\ emitted = << "matchUpdated" >> /\ ret = "true" /\ stage = "group"
    /\ \E i \in DOMAIN groups : \E r \in Range(groups[i].standings) : r.points = 3


\* The matches are the round robin of the four teams: six matches, each
\* unordered pair of teams once, two per matchday 1 to 3 with every team
\* playing once per matchday, in the order 1v4, 2v3; 1v2, 3v4; 3v1, 4v2.
RoundRobin(teams, matches) ==
    /\ Len(matches) = 6
    /\ \A t, u \in Range(teams) :
          t # u => Cardinality({ k \in DOMAIN matches :
                                   { matches[k].homeTeam, matches[k].awayTeam } = { t, u } }) = 1
    /\ \A d \in 1 .. 3 :
          /\ Cardinality({ k \in DOMAIN matches : matches[k].matchday = d }) = 2
          /\ \A t \in Range(teams) :
                Cardinality({ k \in DOMAIN matches :
                                /\ matches[k].matchday = d
                                /\ t \in { matches[k].homeTeam, matches[k].awayTeam } }) = 1
    /\ [k \in DOMAIN matches |-> << matches[k].matchday, matches[k].homeTeam, matches[k].awayTeam >>]
          = << << 1, teams[1], teams[4] >>, << 1, teams[2], teams[3] >>,
               << 2, teams[1], teams[2] >>, << 2, teams[3], teams[4] >>,
               << 3, teams[3], teams[1] >>, << 3, teams[4], teams[2] >> >>

\* C21: for any group of 4 teams match generation yields exactly 6 matches,
\* each unordered pair of teams once, two per matchday 1 to 3 with every
\* team playing once per matchday (1v4, 2v3; 1v2, 3v4; 3v1, 4v2); with a
\* team count other than 4 no matches are generated.
C21_RoundRobinGenerated ==
    ret \in { "group", "schedule" } =>
       \A i \in DOMAIN groups :
          IF Len(groups[i].teams) = 4
          THEN RoundRobin(groups[i].teams, groups[i].matches)
          ELSE groups[i].matches = << >>

\* Group.generateMatches has just generated the matches of a group of four.
C21_GeneratedForFour ==
    /\ ret = "group"
    /\ Len(groups[1].teams) = 4
    /\ Len(groups[1].matches) = 6


\* The winner of the decided match at (0-based) index i of round r sits in
\* match floor(i / 2) of round r + 1, at home iff i is even.
WinnerInNextRound(rs, r, i) ==
    LET m == rs[r].matches[i + 1]
        next == rs[r + 1].matches
    IN /\ i \div 2 < Len(next)
       /\ IF i % 2 = 0
          THEN next[i \div 2 + 1].homeTeam = m.winner
          ELSE next[i \div 2 + 1].awayTeam = m.winner

\* C22: after any sequence of knockout updates, for every decided match at
\* index i of a non-final round, its winner occupies match floor(i/2) of the
\* next round, in the home slot iff i is even (away slot iff i is odd).
C22_WinnerProgresses ==
    /\ \A r \in 1 .. (Len(rounds) - 1) :
          \A i \in 0 .. (Len(rounds[r].matches) - 1) :
             rounds[r].matches[i + 1].winner # Null => WinnerInNextRound(rounds, r, i)
    /\ \A r \in 1 .. (Len(instance.knockout) - 1) :
          \A i \in 0 .. (Len(instance.knockout[r].matches) - 1) :
             instance.knockout[r].matches[i + 1].winner # Null
                => WinnerInNextRound(instance.knockout, r, i)

\* Both quarterfinals are decided and their winners, two real teams, meet
\* in the first semifinal.
C22_BothSlotsFilled ==
    /\ Len(rounds) = 3
    /\ rounds[1].matches[1].winner > 0
    /\ rounds[1].matches[2].winner > 0
    /\ rounds[2].matches[1].homeTeam = rounds[1].matches[1].winner
    /\ rounds[2].matches[1].awayTeam = rounds[1].matches[2].winner


RoundNamed(rs, name) == { i \in DOMAIN rs : rs[i].name = name }

\* The round has a match between the two teams, home against away.
Pairs(round, home, away) ==
    \E m \in Range(round.matches) : m.homeTeam = home /\ m.awayTeam = away

\* The quarterfinals of a two-group bracket: four matches, among them the
\* first of group A against the second of group B and the first of group B
\* against the second of group A.
TwoGroupQuarterfinals(gs, rs) ==
    /\ RoundNamed(rs, "Quarterfinals") # {}
    /\ \A i \in RoundNamed(rs, "Quarterfinals") :
          /\ Len(rs[i].matches) = 4
          /\ Pairs(rs[i], gs[1].standings[1].id, gs[2].standings[2].id)
          /\ Pairs(rs[i], gs[2].standings[1].id, gs[1].standings[2].id)

\* C23: in a 2-group, 8-team tournament, once both groups are fully
\* completed the stage is knockout and the Quarterfinals round contains 4
\* matches, among them winner[0] vs runnerUp[1] and winner[1] vs runnerUp[0].
C23_TwoGroupQuarterfinals ==
    /\ (Len(groups) = 2 /\ \A m \in GroupMatchesOf(groups) : m.played)
          => stage = "knockout" /\ TwoGroupQuarterfinals(groups, rounds)
    /\ (Len(instance.groups) = 2 /\ \A m \in GroupMatchesOf(instance.groups) : m.played)
          => /\ instance.currentStage = "knockout"
             /\ TwoGroupQuarterfinals(instance.groups, instance.knockout)


\* The ids of the rows at (1-based) position n of every group, in group order.
RowsAt(gs, n) == [i \in DOMAIN gs |-> gs[i].standings[n].id]

\* Both sides of every match of the first round are real teams.
FirstRoundOfRealTeams(rs) ==
    /\ rs # << >>
    /\ rs[1].matches # << >>
    /\ \A m \in Range(rs[1].matches) : m.homeTeam > 0 /\ m.awayTeam > 0

\* C24: when the group stage completes, the qualifiers handed to the
\* bracket generator hold, for every group, its standings row 0 as a winner
\* and its row 1 as a runner-up, and the first knockout round is populated
\* with those real teams rather than placeholders.
C24_QualifiersFillFirstRound ==
    /\ emitted = << "matchUpdated", "stageChanged", "groupStageCompleted" >> =>
          /\ getQualifiedTeams(groups).winners = RowsAt(groups, 1)
          /\ getQualifiedTeams(groups).runnersUp = RowsAt(groups, 2)
          /\ FirstRoundOfRealTeams(rounds)
    /\ (instance.exists /\ instance.currentStage = "knockout") =>
          /\ \A q \in determineQualifiedTeams(instance.groups) :
                /\ q.winners = RowsAt(instance.groups, 1)
                /\ q.runnersUp = RowsAt(instance.groups, 2)
          /\ FirstRoundOfRealTeams(instance.knockout)


\* The side of match m that scored more of s, Null when level.
SideAhead(m, s) ==
    IF s[1] > s[2] THEN m.homeTeam ELSE IF s[1] < s[2] THEN m.awayTeam ELSE Null

\* Regulation and regulation plus extra time are both level.
LevelBeforePenalties(in) ==
    /\ in.reg[1] = in.reg[2]
    /\ in.et # NoScores => in.et[1] = in.et[2]

\* C25: for a knockout match whose regulation score and regulation plus
\* extra time aggregate are both level, unequal penalty scores make the
\* match played with winner and penalties.winner both the side with more
\* penalties (1-1, extra time 1-1, penalties 5-4 gives the home team).
C25_PenaltiesDecide ==
    [][ /\ \A in \in DeciderInputs :
              (/\ LevelBeforePenalties(in) /\ in.pens # NoScores
               /\ RoundIndex(rounds, DeciderMatchId) # -1
               /\ KC_updateMatchResult(DeciderMatchId, in))
              => LET before == TheMatch(rounds, DeciderMatchId)
                     after == TheMatch(rounds', DeciderMatchId)
                 IN /\ after.played
                    /\ after.winner = SideAhead(before, in.pens)
                    /\ after.penalties.winner = SideAhead(before, in.pens)
        /\ \A s \in PenaltyInputs :
              LET before == TheMatch(rounds, DeciderMatchId)
                  after == TheMatch(rounds', DeciderMatchId)
              IN (/\ MatchPenalties(DeciderMatchId, s[1], s[2])
                  /\ before.played /\ before.homeScore = before.awayScore
                  /\ before.extraTime.played =>
                        before.extraTime.homeScore = before.extraTime.awayScore)
                 => /\ after.played
                    /\ after.winner = SideAhead(before, s)
                    /\ after.penalties.winner = SideAhead(before, s) ]_vars

\* The semifinal between two real teams stands at 1-1, 1-1 after extra time
\* and 5-4 on penalties, for the home team.
C25_WonOnPenalties ==
    /\ RoundIndex(rounds, DeciderMatchId) # -1
    /\ LET m == TheMatch(rounds, DeciderMatchId)
       IN /\ m.homeTeam > 0 /\ m.awayTeam > 0
          /\ m.homeScore = 1 /\ m.awayScore = 1
          /\ m.extraTime = [played |-> TRUE, homeScore |-> 1, awayScore |-> 1]
          /\ m.penalties.homeScore = 5 /\ m.penalties.awayScore = 4
          /\ m.winner = m.homeTeam
          /\ ret = "true"


\* The side of match m ahead on regulation plus extra time, Null when level.
AggregateWinner(m, reg, et) ==
    SideAhead(m, << reg[1] + et[1], reg[2] + et[2] >>)

\* C26: when extra-time scores are submitted without penalties the winner
\* is the side with the larger aggregate (regulation + extra time) and the
\* match has no winner if the aggregate is level, for every combination of
\* regulation and extra-time scores.
C26_ExtraTimeAggregateDecides ==
    [][ /\ \A in \in DeciderInputs :
              (/\ in.et # NoScores /\ in.pens = NoScores
               /\ RoundIndex(rounds, DeciderMatchId) # -1
               /\ KC_updateMatchResult(DeciderMatchId, in))
              => TheMatch(rounds', DeciderMatchId).winner
                    = AggregateWinner(TheMatch(rounds, DeciderMatchId), in.reg, in.et)
        /\ \A s \in ExtraTimeInputs :
              LET before == TheMatch(rounds, DeciderMatchId)
              IN (MatchExtraTime(DeciderMatchId, s[1], s[2]) /\ before.played)
                 => TheMatch(rounds', DeciderMatchId).winner
                       = AggregateWinner(before, << before.homeScore, before.awayScore >>, s) ]_vars


WinnerPlaysInMatch(m) == m.winner \in { m.homeTeam, m.awayTeam }

\* C27: after any sequence of knockout result updates, re-edits of played
\* matches included, the winner recorded on every played knockout match is
\* one of the match's current home and away teams: changing an earlier
\* result never leaves a later match decided for a team no longer in it.
C27_WinnerStillInMatch ==
    /\ \A m \in KnockoutMatchesOf(rounds) :
          (m.played /\ m.winner # Null) => WinnerPlaysInMatch(m)
    /\ \A m \in KnockoutMatchesOf(instance.knockout) :
          (m.played /\ m.winner # Null) => WinnerPlaysInMatch(m)


\* A knockout match a client can submit a result for: both of its sides
\* are real teams and it has no result yet.
Playable(m) == Match_isScheduled(m) /\ ~m.played

TeamsOf(gs) == UNION { Range(gs[i].teams) : i \in DOMAIN gs }

\* Every group match has a result and no knockout match is left to play.
PlayedOut(gs, rs) ==
    /\ Len(gs) > 0
    /\ \A m \in GroupMatchesOf(gs) : m.played
    /\ \A m \in KnockoutMatchesOf(rs) : ~Playable(m)

\* C28: from a freshly created tournament of a supported groupCount, a
\* decisive result for each group match and then for each knockout match,
\* round by round, each once both of its sides are real teams, ends with
\* stage complete and a champion that is one of the tournament's teams: no
\* bracket holds a match that can never receive both teams.  So a
\* tournament with nothing left to play is complete and has its champion.
C28_PlaysThroughToChampion ==
    /\ (tournament.exists /\ PlayedOut(groups, rounds)) =>
          /\ stage = "complete"
          /\ getTournamentWinner(rounds) \in TeamsOf(groups)
    /\ (instance.exists /\ PlayedOut(instance.groups, instance.knockout)) =>
          /\ instance.currentStage = "complete"
          /\ instance.knockout # << >>
          /\ FinalOf(instance.knockout).winner \in TeamsOf(instance.groups)


\* The round names of a bracket, first round first.
RoundNames(rs) == [i \in DOMAIN rs |-> rs[i].name]

\* The rounds a bracket of groupCount groups is to have.
RoundsFor(groupCount) ==
    CASE groupCount = 1 -> << "Semifinals", "Final" >>
      [] groupCount \in { 2, 3, 4 } -> << "Quarterfinals", "Semifinals", "Final" >>
      [] groupCount \in { 6, 8 } -> << "Round of 16", "Quarterfinals", "Semifinals", "Final" >>

\* The team is a placeholder named TBD.
IsTBD(t) ==
    \/ t = TBD
    \/ t \in { final_home, final_away }
    \/ \E i \in 0 .. 3 : t \in { qf_home(i), qf_away(i), sf_home(i), sf_away(i) }

MatchesIn(name) ==
    CASE name = "Quarterfinals" -> 4
      [] name = "Semifinals" -> 2
      [] name = "Final" -> 1
      [] OTHER -> 8

\* The rounds are those of groupCount groups and every round after the
\* first holds its number of unplayed TBD-against-TBD matches.
BracketShape(rs, groupCount) ==
    /\ RoundNames(rs) = RoundsFor(groupCount)
    /\ \A i \in 2 .. Len(rs) :
          /\ Len(rs[i].matches) = MatchesIn(rs[i].name)
          /\ \A m \in Range(rs[i].matches) :
                IsTBD(m.homeTeam) /\ IsTBD(m.awayTeam) /\ ~m.played /\ m.winner = Null

\* C29: bracket generation yields the rounds, in order, Semifinals, Final
\* for groupCount 1, Quarterfinals, Semifinals, Final for groupCount 2, 3
\* and 4, and Round of 16, Quarterfinals, Semifinals, Final for groupCount 6
\* and 8; every round after the first consists solely of TBD placeholder
\* matches (4 quarterfinals, 2 semifinals, 1 final).
C29_BracketRounds ==
    ret = "rounds" =>
       /\ tournament.exists => BracketShape(rounds, tournament.groupCount)
       /\ instance.exists => BracketShape(instance.knockout, instance.groupCount)

\* A bracket of eight groups has been generated with its eight matches of
\* the Round of 16 between winners and runners-up.
C29_EightGroupBracket ==
    /\ ret = "rounds"
    /\ tournament.exists /\ tournament.groupCount = 8
    /\ Len(rounds) = 4
    /\ Len(rounds[1].matches) >= 4
    /\ \A m \in Range(rounds[1].matches) : m.homeTeam > 0 /\ m.awayTeam > 0


\* The bracket of a single group gs: two semifinals between real teams,
\* first against fourth and second against third of the standings, and
\* then a final of one match with both sides still to be determined.
SingleGroupBracket(gs, rs) ==
    /\ RoundNames(rs) = << "Semifinals", "Final" >>
    /\ Len(rs[1].matches) = 2
    /\ \A m \in Range(rs[1].matches) : m.homeTeam > 0 /\ m.awayTeam > 0
    /\ Pairs(rs[1], gs[1].standings[1].id, gs[1].standings[4].id)
    /\ Pairs(rs[1], gs[1].standings[2].id, gs[1].standings[3].id)
    /\ Len(rs[2].matches) = 1
    /\ IsTBD(rs[2].matches[1].homeTeam) /\ IsTBD(rs[2].matches[1].awayTeam)

\* C30: for groupCount 1, when the group completes the Semifinals round
\* holds exactly two matches between real teams of the group, its 1st-placed
\* against its 4th-placed team and its 2nd-placed against its 3rd-placed
\* team, followed by a one-match TBD Final.
C30_SingleGroupSemifinals ==
    /\ (/\ tournament.exists /\ tournament.groupCount = 1
        /\ emitted = << "matchUpdated", "stageChanged", "groupStageCompleted" >>)
          => SingleGroupBracket(groups, rounds)
    /\ (/\ instance.exists /\ instance.groupCount = 1
        /\ Len(instance.events) >= 2
        /\ instance.events[Len(instance.events) - 1] = "group_stage_completed")
          => SingleGroupBracket(instance.groups, instance.knockout)


\* The quarterfinals of a four-group bracket: quarterfinal i has the winner
\* of group i at home against the runner-up of group 3 - i (groups from 0).
QuarterfinalsOfFour(gs, rs) ==
    /\ rs # << >>
    /\ Len(rs[1].matches) = 4
    /\ \A i \in 0 .. 3 :
          /\ rs[1].matches[i + 1].homeTeam = RowsAt(gs, 1)[i + 1]
          /\ rs[1].matches[i + 1].awayTeam = RowsAt(gs, 2)[4 - i]

\* C31: for groupCount 4, quarterfinal i (i = 0..3) pairs winner[i] as home
\* against runnerUp[3-i] as away, so no quarterfinal pairs two teams from
\* the same group.  For the controller the case is a bracket generated from
\* the four winners and the four runners-up.
C31_FourGroupQuarterfinals ==
    ret = "rounds" =>
       /\ (/\ tournament.exists /\ tournament.groupCount = 4
           /\ Len(rounds[1].matches) = 4
           /\ rounds[1].matches[1].homeTeam = RowsAt(groups, 1)[1])
             => QuarterfinalsOfFour(groups, rounds)
       /\ (instance.exists /\ instance.groupCount = 4)
             => QuarterfinalsOfFour(instance.groups, instance.knockout)


\* Row a ranks above row b: more points, then the better goal difference,
\* then more goals scored, then the earlier name.
RanksAbove(a, b) ==
    \/ a.points > b.points
    \/ a.points = b.points /\ a.goalDifference > b.goalDifference
    \/ a.points = b.points /\ a.goalDifference = b.goalDifference /\ a.goalsFor > b.goalsFor
    \/ /\ a.points = b.points /\ a.goalDifference = b.goalDifference /\ a.goalsFor = b.goalsFor
       /\ a.id < b.id

\* The ids of the top n of the groups' third rows.
TopThirds(gs, n) ==
    LET thirds == { gs[i].standings[3] : i \in DOMAIN gs }
    IN { r.id : r \in { t \in thirds : Cardinality({ o \in thirds : RanksAbove(o, t) }) < n } }

\* The third-placed teams qualification is to select for the groups gs.
BestThirdsFor(gs) ==
    IF Len(gs) = 3 THEN TopThirds(gs, 2)
    ELSE IF Len(gs) = 6 THEN TopThirds(gs, 4) ELSE {}

\* C32: qualification selects best third-placed teams only when there are 3
\* or 6 groups: exactly the top 2 (3 groups) or top 4 (6 groups) of the
\* groups' third rows ranked by points, then goal difference, then goals
\* for, then name; for 1, 2, 4 or 8 groups no third-placed team qualifies.
\* In the controller the case is a state in which third rows are flagged.
C32_BestThirds ==
    /\ (tournament.exists /\ getQualifiedTeams(groups).bestThirds # << >>)
          => Range(getQualifiedTeams(groups).bestThirds) = BestThirdsFor(groups)
    /\ instance.exists
          => \A q \in determineQualifiedTeams(instance.groups) :
                Range(q.bestThirds) = BestThirdsFor(instance.groups)


\* The sum of f over the rows of a table.
SumOver(rows, f(_)) == SumSeq([i \in DOMAIN rows |-> f(rows[i])])

\* The played matches of group g in which team t takes part.
PlayedBy(g, t) ==
    { k \in DOMAIN g.matches :
        g.matches[k].played /\ t \in { g.matches[k].homeTeam, g.matches[k].awayTeam } }

\* Every row of the table of g adds up, row by row and over the group.
StandingsAddUp(g) ==
    LET playedOf(r) == r.played
        goalsForOf(r) == r.goalsFor
        goalsAgainstOf(r) == r.goalsAgainst
        playedMatches == { k \in DOMAIN g.matches : g.matches[k].played }
    IN /\ \A i \in DOMAIN g.standings :
             LET r == g.standings[i]
             IN /\ r.played = r.won + r.drawn + r.lost
                /\ r.points = 3 * r.won + r.drawn
                /\ r.goalDifference = r.goalsFor - r.goalsAgainst
                /\ r.played = Cardinality(PlayedBy(g, r.id))
       /\ SumOver(g.standings, goalsForOf) = SumOver(g.standings, goalsAgainstOf)
       /\ SumOver(g.standings, playedOf) = 2 * Cardinality(playedMatches)

\* C33: for every group in every reachable state, each standings row
\* satisfies played = won + drawn + lost, points = 3 won + drawn and
\* goalDifference = goalsFor - goalsAgainst, counts only matches with played
\* = true, and summed over the group goalsFor equals goalsAgainst and played
\* equals twice the number of played matches.
C33_StandingsAddUp ==
    /\ \A i \in DOMAIN groups : StandingsAddUp(groups[i])
    /\ \A i \in DOMAIN instance.groups : StandingsAddUp(instance.groups[i])

\* A Group object and a Tournament object each with a table in which some
\* matches are played and others are not, a win and a draw among them.
C33_PartlyPlayedGroup ==
    LET partly(g) ==
          /\ \E m \in Range(g.matches) : ~m.played
          /\ \E m \in Range(g.matches) : m.played /\ m.winner = Null
          /\ \E m \in Range(g.matches) : m.played /\ m.winner # Null
    IN \/ groups # << >> /\ partly(groups[1])
       \/ instance.exists /\ instance.groups # << >> /\ partly(instance.groups[1])


\* The ids of the matches of every round, in order.
IdOrder(rs) == [r \in DOMAIN rs |-> [i \in DOMAIN rs[r].matches |-> rs[r].matches[i].id]]

\* The positions << round, match >> at which two brackets of one shape differ.
ChangedIn(rs, after) ==
    { p \in UNION { { << r, i >> : i \in DOMAIN rs[r].matches } : r \in DOMAIN rs } :
        rs[p[1]].matches[p[2]] # after[p[1]].matches[p[2]] }

\* Match b is match a with at most one of its two sides replaced.
OneSideReplaced(a, b) ==
    \/ b = [a EXCEPT !.homeTeam = b.homeTeam]
    \/ b = [a EXCEPT !.awayTeam = b.awayTeam]

\* Bracket after has the rounds and the matches of rs in the same order, and
\* differs from it in one match and at most one side of one match of the
\* round that follows it.
OnlyProgressed(rs, after) ==
    /\ Len(after) = Len(rs)
    /\ IdOrder(after) = IdOrder(rs)
    /\ \/ ChangedIn(rs, after) = {}
       \/ \E u \in ChangedIn(rs, after) :
             \A p \in ChangedIn(rs, after) \ { u } :
                /\ p[1] = u[1] + 1
                /\ ChangedIn(rs, after) \ { u } = { p }
                /\ OneSideReplaced(rs[p[1]].matches[p[2]], after[p[1]].matches[p[2]])

\* C34: a knockout updateMatchResult never adds, removes or reorders
\* matches in any round (each round's match count and id order are constant
\* from bracket creation), and besides the updated match it modifies at most
\* one side (home or away) of exactly one match, in the immediately
\* following round.
C34_OnlyNextSlotChanges ==
    [][ /\ (rounds # << >> /\ rounds' # << >>) => OnlyProgressed(rounds, rounds')
        /\ (instance.currentStage = "knockout" /\ instance'.currentStage = "knockout")
              => OnlyProgressed(instance.knockout, instance'.knockout) ]_vars

\* The second quarterfinal is decided and its winner, a real team, is the
\* away side of the first semifinal, whose home side is still to be
\* determined.
C34_AwaySlotFilled ==
    /\ Len(rounds) = 3
    /\ rounds[1].matches[2].winner > 0
    /\ rounds[2].matches[1].awayTeam = rounds[1].matches[2].winner
    /\ rounds[2].matches[1].homeTeam = TBD


\* The ids of all matches of the groups gs and the rounds rs, one entry per
\* match.
AllMatchIds(gs, rs) ==
    Flatten([i \in DOMAIN gs |-> [k \in DOMAIN gs[i].matches |-> gs[i].matches[k].id]])
       \o Flatten([r \in DOMAIN rs |-> [k \in DOMAIN rs[r].matches |-> rs[r].matches[k].id]])

\* No two entries of the sequence are equal.
Distinct(ids) == \A i, j \in DOMAIN ids : ids[i] = ids[j] => i = j

\* C35: in every reachable state all match identifiers of a tournament are
\* pairwise distinct across all groups and all knockout rounds, so a lookup
\* by id always resolves to the one intended match.
C35_MatchIdsDistinct ==
    /\ Distinct(AllMatchIds(groups, rounds))
    /\ Distinct(AllMatchIds(instance.groups, instance.knockout))


\* The places << match, side >> of a round at which team t stands.
PlacesOf(round, t) ==
    { << k, "home" >> : k \in { j \in DOMAIN round.matches : round.matches[j].homeTeam = t } }
       \union
    { << k, "away" >> : k \in { j \in DOMAIN round.matches : round.matches[j].awayTeam = t } }

\* Every one of the qualifiers stands at exactly one place of the round and
\* no real team stands at two.
EachQualifierOnce(qualifiers, round) ==
    /\ \A t \in qualifiers : Cardinality(PlacesOf(round, t)) = 1
    /\ \A k \in DOMAIN round.matches :
          /\ round.matches[k].homeTeam > 0 => Cardinality(PlacesOf(round, round.matches[k].homeTeam)) = 1
          /\ round.matches[k].awayTeam > 0 => Cardinality(PlacesOf(round, round.matches[k].awayTeam)) = 1

\* The teams of all three lists of the qualifiers q.
QualifiersOf(q) == Range(q.winners) \union Range(q.runnersUp) \union Range(q.bestThirds)

\* C36: in the first knockout round generated for any supported groupCount,
\* every qualifier (each group winner, each runner-up and each selected best
\* third) appears in exactly one match, and no team appears in two matches
\* or on both sides of one match.  Stated for the brackets that open with
\* quarterfinals or a round of 16: in the controller those generated from
\* the winners and runners-up of 2, 4 or 8 groups, in the Tournament class
\* those of 2 groups and more.
C36_EachQualifierOnce ==
    ret = "rounds" =>
       /\ (/\ tournament.exists /\ tournament.groupCount \in { 2, 4, 8 }
           /\ rounds = KC_generateKnockoutStage(TopOfGroups(groups), tournament.groupCount, << >>))
             => EachQualifierOnce(QualifiersOf(TopOfGroups(groups)), rounds[1])
       /\ (instance.exists /\ instance.groupCount >= 2)
             => \A q \in determineQualifiedTeams(instance.groups) :
                   instance.knockout = Helpers_generateKnockoutStage(q, instance.groupCount)
                      => EachQualifierOnce(QualifiersOf(q), instance.knockout[1])


\* Every played match of the bracket rs is between two real teams, and the
\* winner of its last round, the champion, is a real team.
PlayedByRealTeams(rs) ==
    /\ \A m \in KnockoutMatchesOf(rs) : m.played => m.homeTeam > 0 /\ m.awayTeam > 0
    /\ rs # << >> =>
          \A m \in Range(rs[Len(rs)].matches) : m.winner # Null => m.winner > 0

\* C37: a knockout match is marked played only when both of its sides are
\* real teams: no reachable state has a played knockout match with a TBD
\* placeholder side, and the champion is never a placeholder.
C37_NoPlaceholderPlays ==
    /\ PlayedByRealTeams(rounds)
    /\ PlayedByRealTeams(instance.knockout)


\* C38: after any sequence of updates to one knockout match, its extra-time
\* and penalty records agree with its result: if penalties.played then
\* winner = penalties.winner (the side with more penalties), and after an
\* update submitted without extra-time or penalty data extraTime.played and
\* penalties.played are false.
C38_RecordsAgreeWithResult ==
    [][ \A in \in DeciderInputs :
           (/\ RoundIndex(rounds, DeciderMatchId) # -1
            /\ KC_updateMatchResult(DeciderMatchId, in))
           => LET after == TheMatch(rounds', DeciderMatchId)
              IN /\ after.penalties.played =>
                       /\ after.winner = after.penalties.winner
                       /\ after.winner = SideAhead(after, << after.penalties.homeScore,
                                                             after.penalties.awayScore >>)
                 /\ (in.et = NoScores /\ in.pens = NoScores) =>
                       /\ ~after.extraTime.played
                       /\ ~after.penalties.played ]_vars


\* C39: between two resets, the groupStageCompleted notification is emitted
\* at most once (by the update that moves the stage from group to knockout)
\* and the tournamentCompleted notification at most once (by the update
\* that decides the final); later result edits emit neither again.  A stage
\* past group has had its groupStageCompleted since the last reset, and the
\* stage complete its tournamentCompleted.
C39_CompletionNotifiedOnce ==
    [][ "matchUpdated" \in Range(emitted') =>
           /\ stage # "group" => "groupStageCompleted" \notin Range(emitted')
           /\ stage = "complete" => "tournamentCompleted" \notin Range(emitted') ]_vars


\* The row of the player with the given id computed over all the played
\* fixtures.
FromScratch(id, fixtures) ==
    LET atHome == { k \in DOMAIN fixtures : fixtures[k].played /\ fixtures[k].homeTeamId = id }
        away == { k \in DOMAIN fixtures : fixtures[k].played /\ fixtures[k].awayTeamId = id }
        for(k) == IF k \in atHome THEN fixtures[k].homeScore ELSE fixtures[k].awayScore
        against(k) == IF k \in atHome THEN fixtures[k].awayScore ELSE fixtures[k].homeScore
        mine == atHome \union away
        won == Cardinality({ k \in mine : for(k) > against(k) })
        drawn == Cardinality({ k \in mine : for(k) = against(k) })
        lost == Cardinality({ k \in mine : for(k) < against(k) })
        goalsFor == SumSeq([k \in DOMAIN fixtures |-> IF k \in mine THEN for(k) ELSE 0])
        goalsAgainst == SumSeq([k \in DOMAIN fixtures |-> IF k \in mine THEN against(k) ELSE 0])
    IN [id |-> id, played |-> Cardinality(mine), won |-> won, drawn |-> drawn, lost |-> lost,
        goalsFor |-> goalsFor, goalsAgainst |-> goalsAgainst,
        goalDifference |-> goalsFor - goalsAgainst, points |-> 3 * won + drawn]

\* C40: in LeagueManager, after any sequence of saveMatchResult calls (first
\* entries and edits of already played fixtures), every player's
\* incrementally maintained played, won, drawn, lost, goalsFor,
\* goalsAgainst, goalDifference and points equal the values obtained by
\* recomputing from scratch over all currently played fixtures.
C40_TableEqualsRecomputed ==
    \A i \in DOMAIN league.players :
       league.players[i] = FromScratch(league.players[i].id, league.fixtures)

\* All six fixtures of a league of three are played, a win, a draw and a
\* goalless draw among them, and the last call saved a result.
C40_LeaguePlayedOut ==
    /\ Len(league.players) = 3
    /\ Len(league.fixtures) = 6
    /\ \A f \in Range(league.fixtures) : f.played
    /\ \E f \in Range(league.fixtures) : f.homeScore > f.awayScore
    /\ \E f \in Range(league.fixtures) : f.homeScore = 2 /\ f.awayScore = 2
    /\ \E f \in Range(league.fixtures) : f.homeScore = 0 /\ f.awayScore = 0
    /\ emitted = << "success" >>

====
